---- MODULE Spec2Model ----
(***************************************************************************)
(* Model of the sqldatabase package: the SQL transpiler (class             *)
(* SqlTranspiler), the object graph of columns, tables, data types and     *)
(* databases, and the builders of conditions and statements.               *)
(*                                                                         *)
(* SQL text is a sequence of one-character strings, so that the regular    *)
(* expressions, str.find, str.replace and the slices of the source are     *)
(* computed character by character as Python computes them.               *)
(*                                                                         *)
(* Objects live in heaps: a heap is a sequence of records and an object's  *)
(* identity is its index, so that `is` of the source is equality of ids.   *)
(***************************************************************************)
EXTENDS Integers, Sequences, FiniteSets, TLC

VARIABLES
    cache,      \* SqlTranspiler._cache: (sql, dialect value) -> cached parse tree object
    input,      \* the arguments of the call: statement, parameters, dialects
    call,       \* the operation last completed on `input` and what it returned or raised
    data_types, \* heap of SqlDataType objects
    columns,    \* heap of SqlColumn objects
    tables,     \* heap of SqlTable objects
    containers, \* heap of SqlTables containers: each the list of its tables
    databases,  \* heap of SqlDatabase objects
    last,       \* the last operation on the object graph: what it took, returned, raised
    condition,  \* the condition the caller holds: a comparison or a compound of two
    built,      \* the last call of a builder or of insert_records: its arguments, its result
    asked       \* the last call on a bound schema: what it took, what it gave

transpiler == <<cache, input, call>>
calls == <<asked>>
objects == <<data_types, columns, tables, containers, databases, last, condition, built,
             calls>>
graph == <<data_types, columns, tables, containers, databases, last>>
builders == <<condition, built>>
vars == <<cache, input, call, data_types, columns, tables, containers, databases,
          last, condition, built, asked>>

----------------------------------------------------------------------------
(* Bounds of the explored inputs.                                          *)

MaxTokens == 3      \* placeholders / literals in one statement body
MaxParams == 2      \* length of a positional parameter sequence
MaxColumns == 2     \* columns in a RETURNING clause

----------------------------------------------------------------------------
(* Characters and Python string primitives.                                *)

Lower == {"a","b","c","d","e","f","g","h","i","j","k","l","m",
          "n","o","p","q","r","s","t","u","v","w","x","y","z"}
Upper == {"A","B","C","D","E","F","G","H","I","J","K","L","M",
          "N","O","P","Q","R","S","T","U","V","W","X","Y","Z"}
Digit == {"0","1","2","3","4","5","6","7","8","9"}
NameStart == Lower \cup Upper \cup {"_"}
NameChar == NameStart \cup Digit
Sigil == {":", "@", "$"}
Space == {" ", "\n", "\t"}

DigitValue(c) ==
    CASE c = "0" -> 0 [] c = "1" -> 1 [] c = "2" -> 2 [] c = "3" -> 3
      [] c = "4" -> 4 [] c = "5" -> 5 [] c = "6" -> 6 [] c = "7" -> 7
      [] c = "8" -> 8 [] c = "9" -> 9

DigitChar(n) ==
    CASE n = 0 -> "0" [] n = 1 -> "1" [] n = 2 -> "2" [] n = 3 -> "3"
      [] n = 4 -> "4" [] n = 5 -> "5" [] n = 6 -> "6" [] n = 7 -> "7"
      [] n = 8 -> "8" [] n = 9 -> "9"

UpperChar(c) ==
    CASE c = "a" -> "A" [] c = "b" -> "B" [] c = "c" -> "C" [] c = "d" -> "D"
      [] c = "e" -> "E" [] c = "f" -> "F" [] c = "g" -> "G" [] c = "h" -> "H"
      [] c = "i" -> "I" [] c = "j" -> "J" [] c = "k" -> "K" [] c = "l" -> "L"
      [] c = "m" -> "M" [] c = "n" -> "N" [] c = "o" -> "O" [] c = "p" -> "P"
      [] c = "q" -> "Q" [] c = "r" -> "R" [] c = "s" -> "S" [] c = "t" -> "T"
      [] c = "u" -> "U" [] c = "v" -> "V" [] c = "w" -> "W" [] c = "x" -> "X"
      [] c = "y" -> "Y" [] c = "z" -> "Z" [] OTHER -> c

\* str.upper()
StrUpper(s) == [i \in 1..Len(s) |-> UpperChar(s[i])]

\* int(s) for a string of decimal digits
RECURSIVE ParseInt(_)
ParseInt(s) ==
    IF Len(s) = 0 THEN 0
    ELSE 10 * ParseInt(SubSeq(s, 1, Len(s) - 1)) + DigitValue(s[Len(s)])

\* str(n) for n >= 0
RECURSIVE IntToStr(_)
IntToStr(n) ==
    IF n < 10 THEN <<DigitChar(n)>>
    ELSE IntToStr(n \div 10) \o <<DigitChar(n % 10)>>

\* s[i:] with Python's treatment of a negative or too large index
PyFrom(s, i) ==
    LET k == IF i < 0 THEN (IF Len(s) + i < 0 THEN 0 ELSE Len(s) + i)
             ELSE (IF i > Len(s) THEN Len(s) ELSE i)
    IN SubSeq(s, k + 1, Len(s))

\* s[:i] with Python's treatment of a negative or too large index
PyTo(s, i) ==
    LET k == IF i < 0 THEN (IF Len(s) + i < 0 THEN 0 ELSE Len(s) + i)
             ELSE (IF i > Len(s) THEN Len(s) ELSE i)
    IN SubSeq(s, 1, k)

\* s.startswith(sub)
StartsWith(s, sub) ==
    Len(sub) <= Len(s) /\ SubSeq(s, 1, Len(sub)) = sub

\* the least element of a set of positions, `none` for the empty set
Least(S, none) == IF S = {} THEN none ELSE CHOOSE x \in S : \A y \in S : x <= y

\* the greatest element of a set of positions, `none` for the empty set
Greatest(S, none) == IF S = {} THEN none ELSE CHOOSE x \in S : \A y \in S : x >= y

\* s.find(sub, start): 0-based index of the first occurrence at or after
\* start, -1 when there is none
StrFind(s, sub, start) ==
    Least({i \in start..(Len(s) - Len(sub)) : SubSeq(s, i + 1, i + Len(sub)) = sub}, -1)

ReplaceAt(s, old, new, at) ==
    IF at < 0 THEN s
    ELSE SubSeq(s, 1, at) \o new \o SubSeq(s, at + Len(old) + 1, Len(s))

\* s.replace(old, new, 1)
ReplaceFirst(s, old, new) == ReplaceAt(s, old, new, StrFind(s, old, 0))

\* s.lstrip(chars)
RECURSIVE LStrip(_, _)
LStrip(s, chars) ==
    IF Len(s) > 0 /\ s[1] \in chars THEN LStrip(Tail(s), chars) ELSE s

\* s.strip()
RECURSIVE RStrip(_, _)
RStrip(s, chars) ==
    IF Len(s) > 0 /\ s[Len(s)] \in chars
    THEN RStrip(SubSeq(s, 1, Len(s) - 1), chars) ELSE s

Strip(s) == RStrip(LStrip(s, Space), Space)

\* separator.join(parts)
RECURSIVE Join(_, _)
Join(parts, sep) ==
    IF Len(parts) = 0 THEN <<>>
    ELSE IF Len(parts) = 1 THEN parts[1]
    ELSE parts[1] \o sep \o Join(Tail(parts), sep)

----------------------------------------------------------------------------
(* Placeholder scanning.                                                   *)

Quote == {"'", "\""}

\* The closing quote of a literal opened just before position i, for the
\* pattern q(?:qq|[^q])*q : the greedy run stops at the first quote that is
\* not doubled; when the run reaches the end of the text the matcher backs
\* up to the first quote of the last doubled pair.  0 when nothing matches.
RECURSIVE LiteralEnd(_, _, _, _)
\* the same, given the position j of the next quote (0 if none)
LiteralEndAt(s, q, j, lastPair) ==
    IF j = 0 THEN lastPair
    ELSE IF j < Len(s) /\ s[j + 1] = q THEN LiteralEnd(s, q, j + 2, j)
    ELSE j

LiteralEnd(s, q, i, lastPair) ==
    LiteralEndAt(s, q, Least({j \in i..Len(s) : s[j] = q}, 0), lastPair)

\* position i if no literal starts there, else the position after the literal
SkipLiteralAt(i, e) == IF e > 0 THEN e + 1 ELSE i + 1

\* pattern.sub("", s[i:])
RECURSIVE RemoveLiteralsFrom(_, _)
\* the same, given a quote at position q that closes at e (0: not a literal)
RemoveLiteralAt(s, i, q, e) ==
    IF e > 0 THEN SubSeq(s, i, q - 1) \o RemoveLiteralsFrom(s, e + 1)
    ELSE SubSeq(s, i, q) \o RemoveLiteralsFrom(s, q + 1)

\* the same, given the position q of the next quote (0 if none)
RemoveLiteralsAfter(s, i, q) ==
    IF q = 0 THEN SubSeq(s, i, Len(s))
    ELSE RemoveLiteralAt(s, i, q, LiteralEnd(s, s[q], q + 1, 0))

RemoveLiteralsFrom(s, i) ==
    RemoveLiteralsAfter(s, i, Least({j \in i..Len(s) : s[j] \in Quote}, 0))

_remove_string_literals(sql) == RemoveLiteralsFrom(sql, 1)

\* end of the run of characters of `class` that starts at position i
RunEnd(s, i, class) ==
    Least({j \in (i + 1)..Len(s) : s[j] \notin class}, Len(s) + 1) - 1

\* re.findall(r"(?<!:)[:@$][a-zA-Z_][a-zA-Z0-9_]*", s[i - 1:]), the look-behind
\* reading s[i - 1]
RECURSIVE FindNamedFrom(_, _)
\* the match that starts at position j and ends at e, and those after it
FindNamedMatch(s, j, e) == <<SubSeq(s, j, e)>> \o FindNamedFrom(s, e + 1)

FindNamedAt(s, j) ==
    IF j = 0 THEN <<>> ELSE FindNamedMatch(s, j, RunEnd(s, j + 1, NameChar))

FindNamedFrom(s, i) ==
    FindNamedAt(s, Least({j \in i..(Len(s) - 1) :
                             /\ s[j] \in Sigil
                             /\ (j = 1 \/ s[j - 1] # ":")
                             /\ s[j + 1] \in NameStart}, 0))

\* re.findall(r"[$@]\d+|\?", s[i - 1:])
RECURSIVE FindPositionalFrom(_, _)
FindPositionalMatch(s, j, e) == <<SubSeq(s, j, e)>> \o FindPositionalFrom(s, e + 1)

FindPositionalAt(s, j) ==
    IF j = 0 THEN <<>>
    ELSE IF s[j] = "?" THEN FindPositionalMatch(s, j, j)
    ELSE FindPositionalMatch(s, j, RunEnd(s, j + 1, Digit))

FindPositionalFrom(s, i) ==
    FindPositionalAt(s, Least({j \in i..Len(s) :
                                  \/ s[j] = "?"
                                  \/ /\ s[j] \in {"$", "@"}
                                     /\ j < Len(s)
                                     /\ s[j + 1] \in Digit}, 0))

_find_named_parameters(sql) ==
    FindNamedFrom(_remove_string_literals(sql), 1)

_find_positional_placeholders(sql) ==
    FindPositionalFrom(_remove_string_literals(sql), 1)

_find_named_parameters_and_positional_placeholders(sql) ==
    _find_named_parameters(sql) \o _find_positional_placeholders(sql)

_is_positional_placeholder(value) ==
    \/ value = <<"?">>
    \/ /\ Len(value) >= 2
       /\ value[1] \in {"$", "@"}
       /\ \A i \in 2..Len(value) : value[i] \in Digit

_is_named_parameter(value) ==
    /\ Len(value) >= 2
    /\ value[1] \in Sigil
    /\ value[2] \in NameStart
    /\ \A i \in 3..Len(value) : value[i] \in NameChar

----------------------------------------------------------------------------
(* Dialects.                                                               *)

MYSQL == "mysql"
POSTGRESQL == "postgres"
SQLITE == "sqlite"
SQLSERVER == "tsql"
ESqlDialect == {MYSQL, POSTGRESQL, SQLITE, SQLSERVER}

----------------------------------------------------------------------------
(* Parameter collections.  A dict is its keys in insertion order with the  *)
(* value of each; a sequence (list or tuple) has values only.              *)

NoneParameters == [kind |-> "none", keys |-> <<>>, values |-> <<>>]
DictOf(keys, values) == [kind |-> "dict", keys |-> keys, values |-> values]
TupleOf(values) == [kind |-> "seq", keys |-> <<>>, values |-> values]

KeyIndex(d, key) ==
    IF \E i \in 1..Len(d.keys) : d.keys[i] = key
    THEN CHOOSE i \in 1..Len(d.keys) : d.keys[i] = key
    ELSE 0

\* d[key] = value on a dict: a new key is appended, a known key keeps its place
DictSet(d, key, value) ==
    LET i == KeyIndex(d, key)
    IN IF i = 0 THEN DictOf(Append(d.keys, key), Append(d.values, value))
       ELSE DictOf(d.keys, [d.values EXCEPT ![i] = value])

\* faulty variant of SortNamed: a name the map does not hold is dropped
\* instead of raising KeyError
RECURSIVE SortNamedDropping(_, _, _)
SortNamedDropping(found, parameters, acc) ==
    IF Len(found) = 0 THEN [error |-> "none", parameters |-> acc]
    ELSE IF KeyIndex(parameters, LStrip(found[1], Sigil)) = 0
    THEN SortNamedDropping(Tail(found), parameters, acc)
    ELSE SortNamedDropping(Tail(found), parameters,
                           DictSet(acc, LStrip(found[1], Sigil),
                                   parameters.values[KeyIndex(parameters,
                                                              LStrip(found[1], Sigil))]))

\* { name: parameters[name] for parameter in found }, raising KeyError on the
\* first name that parameters does not hold
RECURSIVE SortNamed(_, _, _)
SortNamed(found, parameters, acc) ==
    IF Len(found) = 0 THEN [error |-> "none", parameters |-> acc]
    ELSE LET name == LStrip(found[1], Sigil)
             i == KeyIndex(parameters, name)
         IN IF i = 0 THEN [error |-> "KeyError", parameters |-> NoneParameters]
            ELSE SortNamed(Tail(found), parameters,
                           DictSet(acc, name, parameters.values[i]))

\* [int(p.lstrip("$")) - 1 for p in placeholders if p.startswith("$")]
RECURSIVE DollarIndexes(_)
DollarIndexes(placeholders) ==
    IF Len(placeholders) = 0 THEN <<>>
    ELSE IF StartsWith(placeholders[1], <<"$">>)
    THEN <<ParseInt(LStrip(placeholders[1], {"$"})) - 1>>
             \o DollarIndexes(Tail(placeholders))
    ELSE DollarIndexes(Tail(placeholders))

\* values[index] as Python indexes a sequence: a negative index counts from
\* the end; 0 here means IndexError
PyIndex(values, index) ==
    IF index >= 0 /\ index < Len(values) THEN index + 1
    ELSE IF index < 0 /\ index >= 0 - Len(values) THEN Len(values) + index + 1
    ELSE 0

\* the Sequence branch, given the 0-based indexes of the $i placeholders
SortPositional(indexes, values) ==
    IF Len(indexes) = Len(values)
    THEN IF \E k \in 1..Len(indexes) : PyIndex(values, indexes[k]) = 0
         THEN [error |-> "IndexError", parameters |-> NoneParameters]
         ELSE [error |-> "none",
               parameters |-> TupleOf([k \in 1..Len(indexes) |->
                                          values[PyIndex(values, indexes[k])]])]
    ELSE IF Len(indexes) = 0
    THEN [error |-> "none", parameters |-> TupleOf(values)]
    ELSE [error |-> "AssertionError", parameters |-> NoneParameters]

_sort_parameters(sql, parameters) ==
    IF parameters.kind = "dict"
    THEN SortNamed(_find_named_parameters(sql), parameters, DictOf(<<>>, <<>>))
    ELSE IF parameters.kind = "seq"
    THEN SortPositional(DollarIndexes(_find_positional_placeholders(sql)),
                        parameters.values)
    ELSE [error |-> "none", parameters |-> parameters]

S_parameter_ == <<"p","a","r","a","m","e","t","e","r","_">>

\* the conversion of the sorted parameters to the shape of the dialect
ShapeParameters(sorted, output_dialect) ==
    IF sorted.error # "none" THEN sorted
    ELSE IF /\ sorted.parameters.kind = "dict"
            /\ output_dialect \in {SQLSERVER, POSTGRESQL, MYSQL}
    THEN [error |-> "none", parameters |-> TupleOf(sorted.parameters.values)]
    ELSE IF sorted.parameters.kind = "seq" /\ output_dialect = SQLITE
    THEN [error |-> "none",
          parameters |-> DictOf([i \in 1..Len(sorted.parameters.values) |->
                                    S_parameter_ \o IntToStr(i)],
                                sorted.parameters.values)]
    ELSE sorted

transpile_parameters(sql, parameters, output_dialect) ==
    ShapeParameters(IF parameters.kind = "none"
                    THEN [error |-> "none", parameters |-> TupleOf(<<>>)]
                    ELSE _sort_parameters(sql, parameters),
                    output_dialect)

----------------------------------------------------------------------------
(* Placeholder rewrite of the emitted SQL.                                 *)

\* the replacement of one occurrence; <<>> stands for the `assert False` of
\* a token that is neither positional nor named, or of an unknown dialect
Replacement(parameter_or_placeholder, index, output_dialect) ==
    IF output_dialect = SQLITE
    THEN IF _is_positional_placeholder(parameter_or_placeholder)
         THEN <<":">> \o S_parameter_ \o IntToStr(index + 1)
         ELSE IF _is_named_parameter(parameter_or_placeholder)
         THEN <<":">> \o LStrip(parameter_or_placeholder, Sigil)
         ELSE <<>>
    ELSE IF output_dialect = POSTGRESQL THEN <<"$">> \o IntToStr(index + 1)
    ELSE IF output_dialect \in {SQLSERVER, MYSQL} THEN <<"?">>
    ELSE <<>>

\* the for loop, from the index-th (0-based) entry on
RECURSIVE UpdateLoop(_, _, _, _, _)
\* one iteration, given the location found and the replacement chosen
UpdateStep(sql, found, index, location, replacement, output_dialect) ==
    IF replacement = <<>> THEN [error |-> "AssertionError", sql |-> <<>>]
    ELSE UpdateLoop(PyTo(sql, location)
                        \o ReplaceFirst(PyFrom(sql, location), found[index + 1], replacement),
                    found, index + 1, location + Len(replacement), output_dialect)

UpdateLoop(sql, found, index, search_location, output_dialect) ==
    IF index >= Len(found) THEN [error |-> "none", sql |-> sql]
    ELSE UpdateStep(sql, found, index,
                    StrFind(sql, found[index + 1], search_location),
                    Replacement(found[index + 1], index, output_dialect),
                    output_dialect)

_update_named_parameters_and_positional_placeholders(sql, output_dialect) ==
    UpdateLoop(sql, _find_named_parameters_and_positional_placeholders(sql),
               0, 0, output_dialect)

----------------------------------------------------------------------------
(* SQL statements.  A template is given by its structure; Text is the      *)
(* string the caller passes, and the tree is what the parser builds of it. *)

S_INSERT_INTO_T == <<"I","N","S","E","R","T"," ","I","N","T","O"," ","t">>
S_VALUES_OPEN == <<" ","V","A","L","U","E","S"," ","(">>
S_UPDATE_T_SET == <<"U","P","D","A","T","E"," ","t"," ","S","E","T"," ","c"," ","="," ","0">>
S_WHERE_C_IN == <<" ","W","H","E","R","E"," ","c"," ","I","N"," ","(">>
S_DELETE == <<"D","E","L","E","T","E">>
S_FROM_T == <<" ","F","R","O","M"," ","t">>
S_MERGE_INTO == <<"M","E","R","G","E"," ","I","N","T","O"," ","t"," ","U","S","I","N","G"," ","s"," ","O","N"," ","c"," ","I","N"," ","(">>
S_WHEN_MATCHED == <<" ","W","H","E","N"," ","M","A","T","C","H","E","D"," ","T","H","E","N"," ","D","E","L","E","T","E">>
S_RETURNING == <<"R","E","T","U","R","N","I","N","G">>
S_OUTPUT == <<"O","U","T","P","U","T">>
S_FROM == <<"F","R","O","M">>
S_WHERE == <<"W","H","E","R","E">>
S_INSERTED == <<"I","N","S","E","R","T","E","D">>
S_DELETED == <<"D","E","L","E","T","E","D">>
S_inserted == <<"i","n","s","e","r","t","e","d">>
S_INSERTED_t == <<"I","N","S","E","R","T","E","D",".","t">>
S_id == <<"i","d">>

\* one element of a statement body: a placeholder, or a string literal
Token(kind, text) == [kind |-> kind, text |-> text]
Column(table, name) == [table |-> table, name |-> name]
Statement(kind, body, returning) ==
    [kind |-> kind, body |-> body, returning |-> returning]

ColumnText(column) ==
    IF column.table = <<>> THEN column.name
    ELSE column.table \o <<".">> \o column.name

BodyText(body) == Join([i \in 1..Len(body) |-> body[i].text], <<",", " ">>)

ColumnsText(returning) ==
    Join([i \in 1..Len(returning) |-> ColumnText(returning[i])], <<",", " ">>)

\* the clause a generator writes for the Returning node: OUTPUT in T-SQL
ReturningText(returning, dialect) ==
    IF Len(returning) = 0 THEN <<>>
    ELSE <<" ">> \o (IF dialect = SQLSERVER THEN S_OUTPUT ELSE S_RETURNING)
             \o <<" ">> \o ColumnsText(returning)

\* parsed_sql.sql(dialect=...): the T-SQL generator writes the OUTPUT clause
\* before VALUES / WHERE / FROM, every other generator writes RETURNING last
Emit(tree, dialect) ==
    LET ret == ReturningText(tree.returning, dialect)
        early == IF dialect = SQLSERVER THEN ret ELSE <<>>
        late == IF dialect = SQLSERVER THEN <<>> ELSE ret
        body == BodyText(tree.body)
    IN CASE tree.kind = "Insert" ->
              S_INSERT_INTO_T \o early \o S_VALUES_OPEN \o body \o <<")">> \o late
         [] tree.kind = "Update" ->
              S_UPDATE_T_SET \o early \o S_WHERE_C_IN \o body \o <<")">> \o late
         [] tree.kind = "Delete" ->
              S_DELETE \o early \o S_FROM_T \o S_WHERE_C_IN \o body \o <<")">> \o late
         [] tree.kind = "Merge" ->
              S_MERGE_INTO \o body \o <<")">> \o S_WHEN_MATCHED \o ret

\* the template string of a statement, written in the canonical dialect
Text(statement) == Emit(statement, SQLITE)

\* the items of a comma-separated list, commas inside string literals apart:
\* i is the position reached, start that of the item being read
RECURSIVE SplitItems(_, _, _)
\* the same, given the position j of the next comma or quote (0 if none)
SplitItemsAt(s, j, start) ==
    IF j = 0
    THEN IF start > Len(s) THEN <<>> ELSE <<SubSeq(s, start, Len(s))>>
    ELSE IF s[j] \in Quote
    THEN SplitItems(s, SkipLiteralAt(j, LiteralEnd(s, s[j], j + 1, 0)), start)
    ELSE <<SubSeq(s, start, j - 1)>>
             \o SplitItems(s, RunEnd(s, j, Space) + 1, RunEnd(s, j, Space) + 1)

SplitItems(s, i, start) ==
    SplitItemsAt(s, Least({j \in i..Len(s) : s[j] \in Quote \cup {","}}, 0), start)

\* the first ")" at or after position i that is outside a string literal
RECURSIVE ClosingParen(_, _)
\* the same, given the position j of the next ")" or quote (0 if none)
ClosingParenAt(s, j) ==
    IF j = 0 THEN 0
    ELSE IF s[j] = ")" THEN j
    ELSE ClosingParen(s, SkipLiteralAt(j, LiteralEnd(s, s[j], j + 1, 0)))

ClosingParen(s, i) ==
    ClosingParenAt(s, Least({j \in i..Len(s) : s[j] \in Quote \cup {")"}}, 0))

ParseToken(text) ==
    Token(IF text[1] \in {"'", "\""} THEN "literal"
          ELSE IF text[1] = "?" THEN "positional"
          ELSE IF text[1] \in Sigil /\ Len(text) > 1 /\ text[2] \in Digit THEN "positional"
          ELSE IF text[1] \in Sigil THEN "named"
          ELSE "identifier",
          text)

\* the last "." of a dotted name at or before position i, 0 when there is none
LastDot(s, i) == Greatest({j \in 1..i : s[j] = "."}, 0)

ColumnAt(text, dot) ==
    IF dot = 0 THEN Column(<<>>, text)
    ELSE Column(SubSeq(text, 1, dot - 1), SubSeq(text, dot + 1, Len(text)))

ParseColumn(text) == ColumnAt(text, LastDot(text, Len(text)))

ParseTokens(items) == [i \in 1..Len(items) |-> ParseToken(items[i])]
ParseColumns(items) == [i \in 1..Len(items) |-> ParseColumn(items[i])]

\* the columns of the RETURNING clause found at index `at` of the text that
\* follows the body
ParseReturningAt(rest, at) ==
    IF at < 0 THEN <<>>
    ELSE ParseColumns(SplitItems(PyFrom(rest, at + Len(S_RETURNING) + 1), 1, 1))

ParseReturning(rest) == ParseReturningAt(rest, StrFind(rest, S_RETURNING, 0))

ParseKind(sql) ==
    IF StartsWith(sql, S_INSERT_INTO_T) THEN "Insert"
    ELSE IF StartsWith(sql, S_UPDATE_T_SET) THEN "Update"
    ELSE IF StartsWith(sql, S_DELETE) THEN "Delete"
    ELSE "Merge"

\* the tree, given the positions of the parentheses around the body
ParseBetween(sql, open, close) ==
    Statement(ParseKind(sql),
              ParseTokens(SplitItems(SubSeq(sql, open + 1, close - 1), 1, 1)),
              ParseReturning(SubSeq(sql, close + 1, Len(sql))))

ParseAfter(sql, open) == ParseBetween(sql, open, ClosingParen(sql, open + 1))

\* sqlglot.parse_one(sql, dialect=dialect): the tree of the statement forms
\* Emit writes (the library's parser, reduced to these forms)
ParseOne(sql, dialect) == ParseAfter(sql, StrFind(sql, <<"(">>, 0) + 1)

----------------------------------------------------------------------------
(* Tree rewrite of the RETURNING / OUTPUT clause.                          *)

\* faulty variant of RewriteTable: SQLite and PostgreSQL keep the qualifier
KeepTable(table_name, virtual_table_name, output_dialect) ==
    IF output_dialect = SQLSERVER THEN virtual_table_name ELSE table_name

\* the table of one column of the returning clause after the loop body
RewriteTable(table_name, virtual_table_name, output_dialect) ==
    IF output_dialect = SQLSERVER THEN virtual_table_name
    ELSE IF output_dialect \in {SQLITE, POSTGRESQL}
    THEN IF table_name # <<>>
         THEN IF StrUpper(table_name) = virtual_table_name THEN <<>>
              ELSE IF StartsWith(StrUpper(table_name), virtual_table_name \o <<".">>)
              THEN PyFrom(table_name, Len(virtual_table_name) + 1)
              ELSE table_name
         ELSE table_name
    ELSE table_name

\* faulty variant of PopReturning: the clause stays in the tree
KeepReturning(parsed_sql) == parsed_sql

\* returning.pop()
PopReturning(parsed_sql) == [parsed_sql EXCEPT !.returning = <<>>]

\* the for loop over the columns of the returning clause
RewriteColumns(parsed_sql, virtual_table_name, output_dialect) ==
    [parsed_sql EXCEPT !.returning =
        [i \in 1..Len(parsed_sql.returning) |->
            Column(RewriteTable(parsed_sql.returning[i].table,
                                virtual_table_name, output_dialect),
                   parsed_sql.returning[i].name)]]

\* the tree as the call leaves it, or the AssertionError it raises
_update_returning_and_output_clause(parsed_sql, output_dialect) ==
    IF Len(parsed_sql.returning) = 0
    THEN [error |-> "none", tree |-> parsed_sql]
    ELSE IF output_dialect = MYSQL
    THEN [error |-> "none", tree |-> PopReturning(parsed_sql)]
    ELSE IF parsed_sql.kind \in {"Insert", "Update"}
    THEN [error |-> "none",
          tree |-> RewriteColumns(parsed_sql, S_INSERTED, output_dialect)]
    ELSE IF parsed_sql.kind = "Delete"
    THEN [error |-> "none",
          tree |-> RewriteColumns(parsed_sql, S_DELETED, output_dialect)]
    ELSE [error |-> "AssertionError", tree |-> parsed_sql]

\* faulty variant of DeepCopied: the rewrite is done on the object that was
\* passed in
RewrittenInPlace(parsed_sql, updated) ==
    [error |-> updated.error, tree |-> updated.tree, original |-> updated.tree]

\* copy.deepcopy, then the rewrite of the copy: `original` is the object that
\* was passed in as the call leaves it, `tree` the copy that is returned
DeepCopied(parsed_sql, updated) ==
    [error |-> updated.error, tree |-> updated.tree, original |-> parsed_sql]

_update_parsed_sql(parsed_sql, output_dialect) ==
    DeepCopied(parsed_sql, _update_returning_and_output_clause(parsed_sql, output_dialect))

----------------------------------------------------------------------------
(* Textual fix-up of the T-SQL DELETE ... OUTPUT order.                    *)

\* the word w stands at position i of s, with a word boundary on both sides
WordAt(s, i, w) ==
    /\ i >= 1
    /\ i + Len(w) - 1 <= Len(s)
    /\ SubSeq(s, i, i + Len(w) - 1) = w
    /\ (i = 1 \/ s[i - 1] \notin NameChar)
    /\ (i + Len(w) > Len(s) \/ s[i + Len(w)] \notin NameChar)

\* the first position at or after i where the word w stands, 0 if none
FirstWord(s, i, w) == Least({j \in i..Len(s) : WordAt(s, j, w)}, 0)

\* the first position at or after i where (?=\bWHERE\b|$) holds
ClauseEnd(s, i) ==
    Least({j \in i..Len(s) : WordAt(s, j, S_WHERE) \/ (j = Len(s) /\ s[j] = "\n")},
          IF i > Len(s) THEN i ELSE Len(s) + 1)

NoMatch == [ok |-> FALSE, start |-> 0, output |-> 0, from |-> 0, end |-> 0]

\* the match that starts at position i, given where its FROM stands
OutputMatchFrom(s, i, from) ==
    IF from > 0
    THEN [ok |-> TRUE, start |-> i, output |-> i + Len(S_DELETE) + 1, from |-> from,
          end |-> ClauseEnd(s, from + Len(S_FROM))]
    ELSE NoMatch

\* the match of the pattern that starts at position i, if there is one:
\* DELETE, one white space, OUTPUT up to the first FROM, FROM up to the first
\* WHERE or the end
OutputMatchAt(s, i) ==
    IF /\ i + Len(S_DELETE) <= Len(s)
       /\ SubSeq(s, i, i + Len(S_DELETE) - 1) = S_DELETE
       /\ s[i + Len(S_DELETE)] \in Space
       /\ WordAt(s, i + Len(S_DELETE) + 1, S_OUTPUT)
    THEN OutputMatchFrom(s, i, FirstWord(s, i + Len(S_DELETE) + 1 + Len(S_OUTPUT), S_FROM))
    ELSE NoMatch

OutputSearchAt(s, j) == IF j = 0 THEN NoMatch ELSE OutputMatchAt(s, j)

\* re.search(pattern, s[i - 1:]): the leftmost match
OutputSearch(s, i) ==
    OutputSearchAt(s, Least({j \in i..Len(s) : OutputMatchAt(s, j).ok}, 0))

\* re.sub(pattern, replacement, s[i:]): every match replaced
RECURSIVE OutputSub(_, _, _)
OutputSubAt(s, i, replacement, m) ==
    IF ~m.ok THEN SubSeq(s, i, Len(s))
    ELSE SubSeq(s, i, m.start - 1) \o replacement \o OutputSub(s, m.end, replacement)

OutputSub(s, i, replacement) == OutputSubAt(s, i, replacement, OutputSearch(s, i))

\* the rewrite, given the first match of the pattern
ReorderOutput(sql, match) ==
    IF match.ok
    THEN OutputSub(sql, 1,
                   S_DELETE \o <<" ">>
                       \o Strip(SubSeq(sql, match.from, match.end - 1)) \o <<"\n">>
                       \o Strip(SubSeq(sql, match.output, match.from - 1)) \o <<"\n">>)
    ELSE sql

_update_output_clause(sql, output_dialect) ==
    IF output_dialect = SQLSERVER THEN ReorderOutput(sql, OutputSearch(sql, 1))
    ELSE sql

\* the second fix-up applied to the result of the first
UpdateOutputOf(updated, output_dialect) ==
    IF updated.error # "none" THEN updated
    ELSE [error |-> "none", sql |-> _update_output_clause(updated.sql, output_dialect)]

\* the two textual fix-ups, or the AssertionError of the first
_update_transpiled_sql(sql, output_dialect) ==
    UpdateOutputOf(_update_named_parameters_and_positional_placeholders(sql, output_dialect),
                   output_dialect)

----------------------------------------------------------------------------
(* The parse cache and the public operations.                              *)

EnumDialect(value) == [form |-> "enum", value |-> value]
StrDialect(value) == [form |-> "str", value |-> value]
NoneDialect == [form |-> "none", value |-> ""]

\* input_dialect.value if isinstance(input_dialect, ESqlDialect) else input_dialect
DialectValue(input_dialect) ==
    IF input_dialect.form = "enum" THEN StrDialect(input_dialect.value)
    ELSE input_dialect

CacheKey(sql, input_dialect) == <<sql, DialectValue(input_dialect)>>

NoTree == Statement("none", <<>>, <<>>)
\* a tree object: `id` tells the objects built for one key apart
NoObject == [id |-> 0, tree |-> NoTree]

\* self._cache[cache_key] = parsed_sql; return parsed_sql
StoreParsed(c, cache_key, parsed_sql) ==
    [cache |-> [k \in DOMAIN c \cup {cache_key} |->
                   IF k = cache_key THEN parsed_sql ELSE c[k]],
     object |-> parsed_sql, parsed |-> TRUE]

\* faulty variant of ParseKey: the statement is parsed on every call and the
\* new tree replaces the cached one
ParseKeyAgain(c, sql, cache_key) ==
    StoreParsed(c, cache_key,
                [id |-> IF cache_key \in DOMAIN c THEN 2 ELSE 1,
                 tree |-> ParseOne(sql, cache_key[2])])

\* the lookup, and the parse of a key the cache does not hold
ParseKey(c, sql, cache_key) ==
    IF cache_key \in DOMAIN c
    THEN [cache |-> c, object |-> c[cache_key], parsed |-> FALSE]
    ELSE StoreParsed(c, cache_key, [id |-> 1, tree |-> ParseOne(sql, cache_key[2])])

\* the cache as the call leaves it, the object returned, and whether
\* sqlglot.parse_one ran
_parse(c, sql, input_dialect) == ParseKey(c, sql, CacheKey(sql, input_dialect))

\* the end of transpile_sql: p is what _parse gave, u what _update_parsed_sql
\* gave, t the emitted and fixed-up text
TranspiledSql(p, u, t, cache_key) ==
    [cache |-> [p.cache EXCEPT ![cache_key].tree = u.original],
     error |-> t.error, sql |-> t.sql,
     tree |-> IF t.error = "none" THEN u.tree ELSE NoTree,
     object |-> p.object, parsed |-> p.parsed]

EmitUpdated(p, u, cache_key, output_dialect) ==
    TranspiledSql(p, u,
                  IF u.error # "none" THEN [error |-> u.error, sql |-> <<>>]
                  ELSE _update_transpiled_sql(Emit(u.tree, output_dialect), output_dialect),
                  cache_key)

UpdateParsed(p, cache_key, output_dialect) ==
    EmitUpdated(p, _update_parsed_sql(p.object.tree, output_dialect),
                cache_key, output_dialect)

transpile_sql(c, sql, input_dialect, output_dialect) ==
    UpdateParsed(_parse(c, sql, input_dialect), CacheKey(sql, input_dialect),
                 output_dialect)

\* the parameters are reshaped only when transpile_sql returned
TranspiledParameters(s, p) ==
    [cache |-> s.cache,
     error |-> IF s.error # "none" THEN s.error ELSE p.error,
     sql |-> IF s.error = "none" /\ p.error = "none" THEN s.sql ELSE <<>>,
     parameters |-> IF s.error = "none" /\ p.error = "none"
                    THEN p.parameters ELSE NoneParameters,
     tree |-> s.tree, object |-> s.object, parsed |-> s.parsed]

transpile(c, sql, parameters, input_dialect, output_dialect) ==
    TranspiledParameters(transpile_sql(c, sql, input_dialect, output_dialect),
                         transpile_parameters(sql, parameters, output_dialect))

Arguments(statement, parameters, input_dialect, output_dialect) ==
    [statement |-> statement, parameters |-> parameters,
     input_dialect |-> input_dialect, output_dialect |-> output_dialect]

Returned(op, error, sql, parameters, tree, object, parsed) ==
    [op |-> op, error |-> error, sql |-> sql, parameters |-> parameters,
     tree |-> tree, object |-> object, parsed |-> parsed]

NoCall == Returned("none", "none", <<>>, NoneParameters, NoTree, NoObject, FALSE)

\* the call returns (or raises): r is what the method computed
Completes(op, r) ==
    /\ cache' = r.cache
    /\ call' = Returned(op, r.error, r.sql, r.parameters, r.tree, r.object, r.parsed)

\* a call of a method that does not touch the cache
Computes(op, error, sql, parameters, tree) ==
    /\ call' = Returned(op, error, sql, parameters, tree, NoObject, FALSE)
    /\ UNCHANGED cache

ParsedOnly(r) ==
    [cache |-> r.cache, error |-> "none", sql |-> <<>>, parameters |-> NoneParameters,
     tree |-> NoTree, object |-> r.object, parsed |-> r.parsed]

NoParameters(r) ==
    [cache |-> r.cache, error |-> r.error, sql |-> r.sql, parameters |-> NoneParameters,
     tree |-> r.tree, object |-> r.object, parsed |-> r.parsed]

\* the text the caller passes and the SQL the generator emits for it
Sql == Text(input.statement)
EmittedSql == Emit(ParseOne(Sql, input.input_dialect), input.output_dialect)

\* transpiler._parse(sql, input_dialect)
Parse ==
    /\ Completes("_parse", ParsedOnly(_parse(cache, Sql, input.input_dialect)))
    /\ UNCHANGED <<input, objects>>

\* SqlTranspiler(output_dialect).transpile_sql(sql, input_dialect)
TranspileSql ==
    /\ Completes("transpile_sql",
                 NoParameters(transpile_sql(cache, Sql, input.input_dialect,
                                            input.output_dialect)))
    /\ UNCHANGED <<input, objects>>

\* SqlTranspiler(output_dialect).transpile(sql, parameters, input_dialect)
Transpile ==
    /\ Completes("transpile",
                 transpile(cache, Sql, input.parameters, input.input_dialect,
                           input.output_dialect))
    /\ UNCHANGED <<input, objects>>

SortedOnly(op, r) == Computes(op, r.error, <<>>, r.parameters, NoTree)

\* SqlTranspiler(output_dialect).transpile_parameters(sql, parameters, input_dialect)
TranspileParameters ==
    /\ SortedOnly("transpile_parameters",
                  transpile_parameters(Sql, input.parameters, input.output_dialect))
    /\ UNCHANGED <<input, objects>>

\* transpiler._sort_parameters(sql, parameters)
SortParameters ==
    /\ input.parameters.kind # "none"
    /\ SortedOnly("_sort_parameters", _sort_parameters(Sql, input.parameters))
    /\ UNCHANGED <<input, objects>>

RewrittenOnly(op, r) == Computes(op, r.error, r.sql, NoneParameters, NoTree)

\* transpiler._update_named_parameters_and_positional_placeholders(sql), on
\* the SQL the generator emits for the statement
UpdatePlaceholders ==
    /\ RewrittenOnly("_update_placeholders",
                     _update_named_parameters_and_positional_placeholders(
                         EmittedSql, input.output_dialect))
    /\ UNCHANGED <<input, objects>>

TreeOnly(op, r) ==
    Computes(op, r.error, <<>>, NoneParameters, IF r.error = "none" THEN r.tree ELSE NoTree)

\* transpiler._update_returning_and_output_clause(parsed_sql), on a fresh tree
UpdateReturning ==
    /\ TreeOnly("_update_returning",
                _update_returning_and_output_clause(
                    ParseOne(Sql, input.input_dialect), input.output_dialect))
    /\ UNCHANGED <<input, objects>>

----------------------------------------------------------------------------
(* Inputs.                                                                 *)

NAME_a == <<"a">>
NAME_b == <<"b">>
P_a == Token("named", <<":", "a">>)
P_b == Token("named", <<":", "b">>)
P_at_a == Token("named", <<"@", "a">>)
L_a == Token("literal", <<"'", ":", "a", "'">>)
P_1 == Token("positional", <<"$", "1">>)
P_2 == Token("positional", <<"$", "2">>)
P_q == Token("positional", <<"?">>)
L_q == Token("literal", <<"'", "?", "'">>)

NamedFamily == {P_a, P_b, P_at_a, L_a}
PositionalFamily == {P_1, P_2, P_q, L_q}

\* the sequences over S of length lo..hi
SeqsOf(S, lo, hi) == UNION {[1..n -> S] : n \in lo..hi}

\* named maps over the names a and b, in either key order
NamedMaps ==
    {DictOf(<<>>, <<>>), DictOf(<<NAME_a>>, <<1>>), DictOf(<<NAME_b>>, <<2>>),
     DictOf(<<NAME_a, NAME_b>>, <<1, 2>>), DictOf(<<NAME_b, NAME_a>>, <<2, 1>>)}

\* positional sequences: the i-th value is 10 * i
PositionalSeqs == {TupleOf([i \in 1..n |-> 10 * i]) : n \in 0..MaxParams}

PlaceholderInputs ==
    {Arguments(Statement("Insert", body, <<>>), p, EnumDialect(SQLITE), d) :
        body \in SeqsOf(NamedFamily, 1, MaxTokens),
        p \in NamedMaps \cup {NoneParameters}, d \in ESqlDialect}
    \cup
    {Arguments(Statement("Insert", body, <<>>), p, EnumDialect(SQLITE), d) :
        body \in SeqsOf(PositionalFamily, 1, MaxTokens),
        p \in PositionalSeqs \cup {NoneParameters}, d \in ESqlDialect}

ReturningTables == {<<>>, S_INSERTED, S_inserted, S_DELETED, S_INSERTED_t, <<"t">>}
ReturningColumns == {Column(t, S_id) : t \in ReturningTables}

ReturningInputs ==
    {Arguments(Statement(kind, <<P_a>>, returning), DictOf(<<NAME_a>>, <<1>>),
               EnumDialect(SQLITE), d) :
        kind \in {"Insert", "Update", "Delete", "Merge"},
        returning \in SeqsOf(ReturningColumns, 0, MaxColumns),
        d \in ESqlDialect}

\* the statements and dialect forms of the multi-call specification
WorkStatements ==
    {Statement("Delete", <<P_a, P_b, P_a>>, <<Column(S_DELETED, S_id)>>),
     Statement("Merge", <<P_a>>, <<Column(<<>>, S_id)>>)}
WorkDialects == {EnumDialect(SQLITE), StrDialect(SQLITE), NoneDialect}
WorkInputs ==
    {Arguments(st, p, ind, d) :
        st \in WorkStatements,
        p \in {DictOf(<<NAME_a, NAME_b>>, <<1, 2>>), NoneParameters},
        ind \in WorkDialects, d \in ESqlDialect}

----------------------------------------------------------------------------
(* The object graph: data types, columns, tables, containers, databases.   *)
(* An attribute that holds an object holds its id; None is also the value  *)
(* of an attribute the object does not have yet (a copied column's table,  *)
(* an unbound table's or data type's database).                            *)

None == 0

MaxObjects == 4

\* list.__contains__ and list.remove (the first occurrence goes)
Contains(list, x) == \E j \in 1..Len(list) : list[j] = x
ListRemove(list, x) ==
    LET i == Least({j \in 1..Len(list) : list[j] = x}, 0)
    IN  SubSeq(list, 1, i - 1) \o SubSeq(list, i + 1, Len(list))

\* a data type: SqlDataTypeWithParameter when it has a parameter
DataType(name, parameter) == [name |-> name, parameter |-> parameter, database |-> None]
IsParameterised(data_type) == data_type.parameter # None

\* the instances that are class attributes of SqlDataTypes
SqlDataTypes == <<DataType("INTEGER", None), DataType("TEXT", None)>>

\* what an operation on the object graph returned or raised
Done(op, self, object, error) ==
    [op |-> op, self |-> self, object |-> object, error |-> error]
Nothing == Done("none", None, None, "none")

\* SqlColumn(name, data_type, reference=reference): the new column is the
\* last of the heap and joins the foreign keys of the column it references
SqlColumn__init__(cs, data_type, reference) ==
    Append(IF reference = None THEN cs
           ELSE [cs EXCEPT ![reference]._foreign_keys = Append(@, Len(cs) + 1)],
           [data_type |-> data_type, reference |-> reference,
            _foreign_keys |-> <<>>, table |-> None])

\* lines 109-115 of __deepcopy__ on the heap: the copy `column` takes the
\* place of `self` in the foreign keys of the referenced column, and the
\* foreign keys of `self` are pointed at the copy; the list of `self` stays
Relinked(cs, self, column) ==
    LET reference == cs[self].reference
        moved == IF reference = None THEN cs
                 ELSE [cs EXCEPT ![reference]._foreign_keys =
                                     Append(ListRemove(@, self), column)]
    IN  [c \in 1..Len(moved) |->
            IF Contains(cs[self]._foreign_keys, c)
            THEN [moved[c] EXCEPT !.reference = column] ELSE moved[c]]

\* copy.deepcopy(self) of a column. The data type is deep-copied with the
\* other attributes: one bound to a database drags the database and its
\* connection into the copy, which raises TypeError; list.remove raises
\* ValueError when `self` is not among the foreign keys of its reference.
\* Either way nothing reachable has changed.
SqlColumn__deepcopy__(dts, cs, self) ==
    LET data_type == dts[cs[self].data_type]
        reference == cs[self].reference
        column == Len(cs) + 1
    IN  IF data_type.database # None
        THEN [data_types |-> dts, columns |-> cs, column |-> None, error |-> "TypeError"]
        ELSE IF reference # None /\ ~Contains(cs[reference]._foreign_keys, self)
        THEN [data_types |-> dts, columns |-> cs, column |-> None, error |-> "ValueError"]
        ELSE [data_types |-> Append(dts, data_type),
              columns |-> Relinked(Append(cs, [data_type |-> Len(dts) + 1,
                                               reference |-> reference,
                                               _foreign_keys |-> cs[self]._foreign_keys,
                                               table |-> None]),
                                   self, column),
              column |-> column, error |-> "none"]

\* column = SqlColumn(...), by a caller that holds the columns made so far
ConstructColumn ==
    /\ Len(columns) < MaxObjects
    /\ \E data_type \in 1..Len(SqlDataTypes), reference \in 0..Len(columns) :
          /\ columns' = SqlColumn__init__(columns, data_type, reference)
          /\ last' = Done("SqlColumn", reference, Len(columns) + 1, "none")
    /\ UNCHANGED <<transpiler, calls, data_types, tables, containers, databases, builders>>

\* copy.deepcopy(column) of any column made so far
DeepCopyColumn ==
    /\ Len(columns) < MaxObjects
    /\ \E self \in 1..Len(columns) :
          LET r == SqlColumn__deepcopy__(data_types, columns, self)
          IN  /\ data_types' = r.data_types
              /\ columns' = r.columns
              /\ last' = Done("deepcopy", self, r.column, r.error)
    /\ UNCHANGED <<transpiler, calls, tables, containers, databases, builders>>

\* the tables a container class declares, each by the data types of its
\* columns: INTEGER and TEXT of the catalogue, VARCHAR(10) with a parameter
INTEGER == DataType("INTEGER", None)
TEXT == DataType("TEXT", None)
VARCHAR == DataType("VARCHAR", 10)
Schemas ==
    {<<<<INTEGER, TEXT>>>>, <<<<INTEGER, INTEGER>>>>, <<<<VARCHAR, INTEGER>>>>,
     <<<<VARCHAR>>>>, <<<<INTEGER>>, <<TEXT, INTEGER>>>>}

MaxContainers == 2
MaxDatabases == 2

\* one table of a new container. The container deep-copies the table, the
\* table its columns, and each column its data type: every column of the
\* result has a data type instance of its own, bound to no database, and
\* SqlTable.__deepcopy__ points the columns at the table
CopiedTable(h, types) ==
    [data_types |-> h.data_types \o types,
     columns |-> h.columns \o
         [i \in 1..Len(types) |->
             [data_type |-> Len(h.data_types) + i, reference |-> None,
              _foreign_keys |-> <<>>, table |-> Len(h.tables) + 1]],
     tables |-> Append(h.tables,
         [columns |-> [i \in 1..Len(types) |-> Len(h.columns) + i],
          database |-> None])]

\* EnumLikeContainer.__init__ of a SqlTables subclass: one copy per table
RECURSIVE EnumLikeContainer__init__(_, _)
EnumLikeContainer__init__(h, schema) ==
    IF schema = <<>> THEN h
    ELSE EnumLikeContainer__init__(CopiedTable(h, Head(schema)), Tail(schema))

\* one column of the loop of SqlDatabase.__init__: a data type with a
\* parameter is bound in place; another is replaced by the copy made for
\* this database under its name, and making that copy of a data type that
\* is bound to a database raises TypeError, as the database is copied with
\* it and its connection cannot be
BindColumn(s, c, self) ==
    LET d == s.columns[c].data_type
        data_type == s.data_types[d]
    IN  IF IsParameterised(data_type)
        THEN [s EXCEPT !.data_types[d].database = self]
        ELSE IF data_type.name \in DOMAIN s.made
        THEN [s EXCEPT !.columns[c].data_type = s.made[data_type.name]]
        ELSE IF data_type.database # None
        THEN [s EXCEPT !.error = "TypeError"]
        ELSE [s EXCEPT !.data_types = Append(@, [data_type EXCEPT !.database = self]),
                       !.made = @ @@ (data_type.name :> Len(s.data_types) + 1),
                       !.columns[c].data_type = Len(s.data_types) + 1]

RECURSIVE BindColumns(_, _, _)
BindColumns(s, cs, self) ==
    IF cs = <<>> \/ s.error # "none" THEN s
    ELSE BindColumns(BindColumn(s, Head(cs), self), Tail(cs), self)

\* the loop over the tables: the table is bound before its columns
RECURSIVE BindTables(_, _, _)
BindTables(s, ts, self) ==
    IF ts = <<>> \/ s.error # "none" THEN s
    ELSE BindTables(BindColumns([s EXCEPT !.tables[Head(ts)].database = self],
                                s.tables[Head(ts)].columns, self),
                    Tail(ts), self)

\* SqlDatabase.__init__ of the database `self` over the tables container
SqlDatabase__init__(dts, cs, ts, container, self) ==
    BindTables([data_types |-> dts, columns |-> cs, tables |-> ts,
                made |-> [n \in {} |-> None], error |-> "none"],
               container, self)

\* class Tables(SqlTables): ...; tables = Tables()
NewTables ==
    /\ Len(containers) < MaxContainers
    /\ \E schema \in Schemas :
          LET h == EnumLikeContainer__init__(
                       [data_types |-> data_types, columns |-> columns,
                        tables |-> tables], schema)
          IN  /\ data_types' = h.data_types
              /\ columns' = h.columns
              /\ tables' = h.tables
              /\ containers' = Append(containers,
                     [i \in 1..Len(schema) |-> Len(tables) + i])
              /\ last' = Done("SqlTables", None, Len(containers) + 1, "none")
    /\ UNCHANGED <<transpiler, calls, databases, builders>>

\* database = Database(...) of a class whose `tables` attribute is one of
\* the containers: every instance of the class takes that same container.
\* When __init__ raises, the caller gets no database, but the object is
\* what the tables bound so far point at
NewDatabase ==
    /\ Len(databases) < MaxDatabases
    /\ \E container \in 1..Len(containers) :
          LET self == Len(databases) + 1
              s == SqlDatabase__init__(data_types, columns, tables,
                                       containers[container], self)
          IN  /\ data_types' = s.data_types
              /\ columns' = s.columns
              /\ tables' = s.tables
              /\ databases' = Append(databases,
                     [tables |-> container, constructed |-> s.error = "none"])
              /\ last' = Done("SqlDatabase", container,
                              IF s.error = "none" THEN self ELSE None, s.error)
    /\ UNCHANGED <<transpiler, calls, containers, builders>>

----------------------------------------------------------------------------
(* Conditions: comparisons of a column with values, and their compounds.   *)
(* Text is again a sequence of characters and a dict keeps its key order.  *)

MaxValues == 2
MaxDepth == 1

OperatorNames ==
    {"IS_BETWEEN", "IS_EQUAL", "IS_GREATER_THAN", "IS_GREATER_THAN_OR_EQUAL", "IS_IN", "IS_LESS_THAN", "IS_LESS_THAN_OR_EQUAL", "IS_LIKE", "IS_NOT_BETWEEN", "IS_NOT_EQUAL", "IS_NOT_IN", "IS_NOT_LIKE", "IS_NOT_NULL", "IS_NULL"}

\* class ESqlComparisonOperator: the value given to each name. An Enum makes
\* a name whose value an earlier member has an alias of that member, so the
\* member a name denotes is known by its value
ESqlComparisonOperator(name) ==
    CASE
         name = "IS_BETWEEN" -> <<"B", "E", "T", "W", "E", "E", "N">>
      [] name = "IS_EQUAL" -> <<"=">>
      [] name = "IS_GREATER_THAN" -> <<">">>
      [] name = "IS_GREATER_THAN_OR_EQUAL" -> <<"<", "=">>
      [] name = "IS_IN" -> <<"I", "N">>
      [] name = "IS_LESS_THAN" -> <<"<">>
      [] name = "IS_LESS_THAN_OR_EQUAL" -> <<"<", "=">>
      [] name = "IS_LIKE" -> <<"L", "I", "K", "E">>
      [] name = "IS_NOT_BETWEEN" -> <<"N", "O", "T", " ", "B", "E", "T", "W", "E", "E", "N">>
      [] name = "IS_NOT_EQUAL" -> <<"!", "=">>
      [] name = "IS_NOT_IN" -> <<"N", "O", "T", " ", "I", "N">>
      [] name = "IS_NOT_LIKE" -> <<"N", "O", "T", " ", "L", "I", "K", "E">>
      [] name = "IS_NOT_NULL" -> <<"I", "S", " ", "N", "O", "T", " ", "N", "U", "L", "L">>
      [] name = "IS_NULL" -> <<"I", "S", " ", "N", "U", "L", "L">>

AND == <<"A", "N", "D">>
OR == <<"O", "R">>

\* column.fully_qualified_name of a column of a table of a SQLite database
\* that has no attached database: "<table name>.<column name>"
fully_qualified_name(table_name, name) == table_name \o <<".">> \o name

\* the operands: columns a and b of table t, and literal values
OperandColumn(name) ==
    [kind |-> "column", fully_qualified_name |-> fully_qualified_name(<<"t">>, name),
     value |-> None]
Literal(value) == [kind |-> "literal", fully_qualified_name |-> <<>>, value |-> value]
Operands == {OperandColumn(<<"b">>), Literal(1)}

\* uuid.uuid4().hex[:8]: eight hexadecimal digits drawn at random
Uuids == {<<"0", "0", "0", "0", "0", "0", "0", "a">>, <<"0", "0", "0", "0", "0", "0", "0", "b">>}

\* column.generate_parameter_name(), given the digits uuid4 draws
generate_parameter_name(column, uuid) ==
    [i \in 1..Len(column.fully_qualified_name) |->
        IF column.fully_qualified_name[i] = "." THEN "_"
        ELSE column.fully_qualified_name[i]] \o <<"_">> \o uuid

\* the faulty variant: two values are accepted where one is required
ValidatesUpToTwo(operator, right) ==
    IF operator \in {ESqlComparisonOperator("IS_NULL"),
                     ESqlComparisonOperator("IS_NOT_NULL")}
    THEN Len(right) = 0
    ELSE IF operator \in {ESqlComparisonOperator("IS_BETWEEN"),
                          ESqlComparisonOperator("IS_NOT_BETWEEN")}
    THEN Len(right) = 2
    ELSE IF operator \in {ESqlComparisonOperator("IS_IN"),
                          ESqlComparisonOperator("IS_NOT_IN")}
    THEN TRUE
    ELSE Len(right) \in {1, 2}

\* the assertion of _validate_value_count holds
_validate_value_count(operator, right) ==
    IF operator \in {ESqlComparisonOperator("IS_NULL"),
                     ESqlComparisonOperator("IS_NOT_NULL")}
    THEN Len(right) = 0
    ELSE IF operator \in {ESqlComparisonOperator("IS_BETWEEN"),
                          ESqlComparisonOperator("IS_NOT_BETWEEN")}
    THEN Len(right) = 2
    ELSE IF operator \in {ESqlComparisonOperator("IS_IN"),
                          ESqlComparisonOperator("IS_NOT_IN")}
    THEN TRUE
    ELSE Len(right) = 1

\* the loop of _parse_values over the values not yet parsed: a column gives
\* its name, any other value a placeholder of a generated name; the columns
\* of the model have no converter, so the value is stored as it is
RECURSIVE _parse_values(_, _, _)
_parse_values(c, right, uuids) ==
    IF right = <<>> THEN c
    ELSE IF Head(right).kind = "column"
    THEN _parse_values(
             [c EXCEPT !._values_to_sql = Append(@, Head(right).fully_qualified_name)],
             Tail(right), Tail(uuids))
    ELSE _parse_values(
             [c EXCEPT !._values_to_sql =
                           Append(@, <<":">> \o generate_parameter_name(c.left, Head(uuids))),
                       !.parameters =
                           DictSet(@, generate_parameter_name(c.left, Head(uuids)),
                                   Head(right).value)],
             Tail(right), Tail(uuids))

Condition(kind, left, operator, right) ==
    [kind |-> kind, left |-> left, operator |-> operator, right |-> right,
     parameters |-> DictOf(<<>>, <<>>), _values_to_sql |-> <<>>]
NoCondition == Condition("none", None, <<>>, <<>>)

\* what a call took and gave: the name of the operator and the number of
\* values of a comparison, the rendered SQL, the record and the drawn digits
\* of an UPDATE with what it hands to its template, the cursors of an
\* insertion with the ids it returned (none: it returned None)
NoBuilt ==
    [op |-> "none", error |-> "none", operator |-> "", values |-> 0, sql |-> <<>>,
     record |-> <<>>, uuids |-> <<>>, template_parameters |-> DictOf(<<>>, <<>>),
     columns_and_parameters |-> <<>>, cursors |-> <<>>, none |-> FALSE, ids |-> <<>>]

\* SqlCondition(left, operator, *right); the i-th of uuids is what uuid4
\* draws for the i-th value
SqlCondition__init__(left, operator, right, uuids) ==
    IF _validate_value_count(operator, right)
    THEN [condition |-> _parse_values(Condition("comparison", left, operator, right),
                                      right, uuids),
          error |-> "none"]
    ELSE [condition |-> NoCondition, error |-> "AssertionError"]

\* d | other and d.update(other) of two dicts
RECURSIVE DictUpdate(_, _)
DictUpdate(d, other) ==
    IF other.keys = <<>> THEN d
    ELSE DictUpdate(DictSet(d, Head(other.keys), Head(other.values)),
                    DictOf(Tail(other.keys), Tail(other.values)))

\* SqlCompoundCondition(left, operator, right)
SqlCompoundCondition(left, operator, right) ==
    [kind |-> "compound", left |-> left, operator |-> operator, right |-> right,
     parameters |-> DictUpdate(left.parameters, right.parameters),
     _values_to_sql |-> <<>>]

\* SqlCondition.to_sql of a comparison whose left side is a column
ComparisonToSql(c) ==
    LET sql == c.left.fully_qualified_name \o <<" ">> \o c.operator
    IN  IF c.operator \in {ESqlComparisonOperator("IS_NULL"),
                           ESqlComparisonOperator("IS_NOT_NULL")}
        THEN sql
        ELSE IF c.operator \in {ESqlComparisonOperator("IS_BETWEEN"),
                                ESqlComparisonOperator("IS_NOT_BETWEEN")}
        THEN sql \o <<" ">> \o c._values_to_sql[1] \o <<" ", "A", "N", "D", " ">> \o c._values_to_sql[2]
        ELSE IF c.operator \in {ESqlComparisonOperator("IS_IN"),
                                ESqlComparisonOperator("IS_NOT_IN")}
        THEN sql \o <<" ", "(">> \o Join(c._values_to_sql, <<",", " ">>) \o <<")">>
        ELSE sql \o <<" ">> \o c._values_to_sql[1]

\* to_sql of a condition: SqlCompoundCondition.to_sql renders its two sides
RECURSIVE to_sql(_)
to_sql(c) ==
    IF c.kind = "compound"
    THEN <<"(">> \o to_sql(c.left) \o <<" ">> \o c.operator \o <<" ">>
         \o to_sql(c.right) \o <<")">>
    ELSE ComparisonToSql(c)

\* how deep the compounds of a condition nest
RECURSIVE Depth(_)
Depth(c) ==
    IF c.kind # "compound" THEN 0
    ELSE 1 + (IF Depth(c.left) > Depth(c.right) THEN Depth(c.left) ELSE Depth(c.right))

\* condition = SqlCondition(t.a, operator, *right), by a caller that holds
\* no condition; when the constructor raises the caller still holds none
Compare ==
    /\ condition.kind = "none"
    /\ \E name \in OperatorNames, right \in SeqsOf(Operands, 0, MaxValues + 1) :
          \E uuids \in [1..Len(right) -> Uuids] :
              LET r == SqlCondition__init__(OperandColumn(<<"a">>),
                                            ESqlComparisonOperator(name), right, uuids)
              IN  /\ condition' = r.condition
                  /\ built' = [NoBuilt EXCEPT !.op = "SqlCondition", !.error = r.error,
                                               !.operator = name, !.values = Len(right)]
    /\ UNCHANGED <<transpiler, calls, graph>>

\* condition = condition & other, condition = condition | other, where
\* other is a new comparison of the same column with the value 2
Combine ==
    /\ condition.kind # "none"
    /\ Depth(condition) < MaxDepth
    /\ \E operator \in {AND, OR}, uuid \in Uuids :
          /\ condition' = SqlCompoundCondition(
                 condition, operator,
                 SqlCondition__init__(OperandColumn(<<"a">>),
                                      ESqlComparisonOperator("IS_EQUAL"),
                                      <<Literal(2)>>, <<uuid>>).condition)
          /\ built' = [NoBuilt EXCEPT !.op = "SqlCompoundCondition"]
    /\ UNCHANGED <<transpiler, calls, graph>>

\* str(condition)
ToSql ==
    /\ condition.kind # "none"
    /\ built' = [NoBuilt EXCEPT !.op = "to_sql", !.sql = to_sql(condition)]
    /\ UNCHANGED <<transpiler, calls, graph, condition>>

\* the caller lets go of the condition
Discard ==
    /\ condition.kind # "none"
    /\ condition' = NoCondition
    /\ built' = NoBuilt
    /\ UNCHANGED <<transpiler, calls, graph>>

----------------------------------------------------------------------------
(* Statements on records: UPDATE of a record, INSERT of records.           *)

MaxRecords == 4

\* a record: its columns in key order, each with its value
Item(name, value) == [column |-> OperandColumn(name), value |-> value]
Records ==
    {<<Item(<<"a">>, 1)>>, <<Item(<<"b">>, 2)>>,
     <<Item(<<"a">>, 1), Item(<<"b">>, 2)>>, <<Item(<<"b">>, 2), Item(<<"a">>, 1)>>}

\* record.to_database_parameters(): one generated name per item; the i-th
\* of uuids is what uuid4 draws for the i-th item
RECURSIVE to_database_parameters(_, _, _)
to_database_parameters(parameters, items, uuids) ==
    IF items = <<>> THEN parameters
    ELSE to_database_parameters(
             DictSet(parameters, generate_parameter_name(Head(items).column, Head(uuids)),
                     Head(items).value),
             Tail(items), Tail(uuids))

\* list(zip(record.keys(), parameters)): the i-th column with the i-th key
Zip(keys, parameters) ==
    [i \in 1..(IF Len(keys) < Len(parameters.keys) THEN Len(keys)
               ELSE Len(parameters.keys)) |->
        <<keys[i], parameters.keys[i]>>]

\* SqlUpdateStatement(dialect, table, record, where_condition): what it
\* hands to the template
SqlUpdateStatement__init__(record, where_condition, uuids) ==
    LET parameters == DictUpdate(
            to_database_parameters(DictOf(<<>>, <<>>), record, uuids),
            where_condition.parameters)
    IN  [NoBuilt EXCEPT
            !.op = "SqlUpdateStatement", !.record = record, !.uuids = uuids,
            !.template_parameters = parameters,
            !.columns_and_parameters =
                Zip([i \in 1..Len(record) |-> record[i].column], parameters)]

\* what the cursor of an executed INSERT shows: no description, a
\* description and no row, or a row that holds the id
Cursor(description, row) == [description |-> description, row |-> row]
Cursors == {Cursor(FALSE, None), Cursor(TRUE, None), Cursor(TRUE, 1), Cursor(TRUE, 2)}

\* the loop of insert_records over the cursors of the statements not yet
\* looked at
RECURSIVE CollectIds(_, _)
CollectIds(ids, cursors) ==
    IF cursors = <<>> THEN ids
    ELSE CollectIds(IF Head(cursors).description /\ Head(cursors).row # None
                    THEN Append(ids, Head(cursors).row) ELSE ids,
                    Tail(cursors))

\* database.insert_records(table, records), given the cursor that executing
\* the statement of each record returns; records[0] of no record raises
insert_records(cursors) ==
    IF cursors = <<>>
    THEN [NoBuilt EXCEPT !.op = "insert_records", !.error = "IndexError"]
    ELSE [NoBuilt EXCEPT !.op = "insert_records", !.cursors = cursors,
                         !.none = Len(CollectIds(<<>>, cursors)) = 0,
                         !.ids = CollectIds(<<>>, cursors)]

\* statement = SqlUpdateStatement(dialect, t, record, condition)
UpdateStatement ==
    /\ condition.kind # "none"
    /\ \E record \in Records :
          \E uuids \in [1..Len(record) -> Uuids] :
              built' = SqlUpdateStatement__init__(record, condition, uuids)
    /\ UNCHANGED <<transpiler, calls, graph, condition>>

\* ids = database.insert_records(t, records)
InsertRecords ==
    /\ \E cursors \in SeqsOf(Cursors, 0, MaxRecords) :
          built' = insert_records(cursors)
    /\ UNCHANGED <<transpiler, calls, graph, condition>>

----------------------------------------------------------------------------
(* Bound schemas.  A database that has been constructed holds its tables,  *)
(* each table its columns; `bound` is a list of such databases and an      *)
(* object is named by where it sits: a database by its index d, a table by *)
(* <<d, t>>, a column by <<d, t, c>>.  NoColumn stands for None.           *)

NoColumn == <<>>
NoName == <<>>

SchemaColumn(name, data_type, reference) ==
    [name |-> name, data_type |-> data_type, reference |-> reference]
SchemaTable(name, _schema_name, cols) ==
    [name |-> name, _schema_name |-> _schema_name, columns |-> cols]
SchemaDatabase(name, dialect, tabs, attached_databases) ==
    [name |-> name, dialect |-> dialect, tables |-> tabs,
     attached_databases |-> attached_databases]

BoundTable(bound, table) == bound[table[1]].tables[table[2]]
BoundColumn(bound, column) == bound[column[1]].tables[column[2]].columns[column[3]]
TableOfColumn(column) == <<column[1], column[2]>>

\* SqlDatabase.default_schema_name: "dbo" in SqlServerDatabase, None elsewhere
default_schema_name(database) ==
    IF database.dialect = SQLSERVER THEN <<"d", "b", "o">> ELSE NoName

\* table.schema_name
schema_name(bound, table) ==
    IF BoundTable(bound, table)._schema_name # NoName THEN BoundTable(bound, table)._schema_name
    ELSE default_schema_name(bound[table[1]])

\* table.fully_qualified_name: database.get_table_fully_qualified_name(table)
\* of the database the table belongs to
get_table_fully_qualified_name(bound, table) ==
    LET database == bound[table[1]]
    IN IF database.dialect = SQLSERVER
       THEN database.name \o <<".">> \o schema_name(bound, table) \o <<".">>
                \o BoundTable(bound, table).name
       ELSE IF database.attached_databases # <<>>
       THEN database.name \o <<".">> \o BoundTable(bound, table).name
       ELSE BoundTable(bound, table).name

\* column.fully_qualified_name
column_fully_qualified_name(bound, column) ==
    get_table_fully_qualified_name(bound, TableOfColumn(column)) \o <<".">>
        \o BoundColumn(bound, column).name

S_COLUMN == <<"C", "O", "L", "U", "M", "N">>
S_FUNCTION == <<"F", "U", "N", "C", "T", "I", "O", "N">>

\* column.alias
column_alias(bound, column) == S_COLUMN \o <<".">> \o column_fully_qualified_name(bound, column)

\* the aggregate functions of SqlFunctions, by name; all but count require a column
S_count == <<"c", "o", "u", "n", "t">>
S_min == <<"m", "i", "n">>
S_max == <<"m", "a", "x">>
S_sum == <<"s", "u", "m">>
S_avg == <<"a", "v", "g">>
SqlFunctions == <<S_avg, S_count, S_max, S_min, S_sum>>
SqlAggregateFunctionWithMandatoryColumn == {S_avg, S_max, S_min, S_sum}

\* an item: a column, or an aggregate function over a column or over none
ColumnItem(column) == [kind |-> "column", name |-> NoName, column |-> column]
SqlAggregateFunction(name, column) == [kind |-> "function", name |-> name, column |-> column]
NoItem == [kind |-> "none", name |-> NoName, column |-> NoColumn]

\* function.alias, column.alias
alias(bound, item) ==
    IF item.kind = "column" THEN column_alias(bound, item.column)
    ELSE IF item.column = NoColumn THEN S_FUNCTION \o <<".">> \o item.name
    ELSE S_FUNCTION \o <<".">> \o item.name \o <<".">> \o column_alias(bound, item.column)

\* function.fully_qualified_name
function_fully_qualified_name(bound, item) ==
    IF item.column = NoColumn THEN StrUpper(item.name) \o <<"(", "*", ")">>
    ELSE StrUpper(item.name) \o <<"(">> \o column_fully_qualified_name(bound, item.column)
             \o <<")">>

\* x == y on items: columns compare by identity, SqlAggregateFunction.__eq__
\* by fully qualified name
ItemEq(bound, x, y) ==
    IF x.kind = "function" /\ y.kind = "function"
    THEN function_fully_qualified_name(bound, x) = function_fully_qualified_name(bound, y)
    ELSE x = y

\* s.split(".")
RECURSIVE Split(_)
\* the same, given the 0-based index of the first "." (-1 if none)
SplitAt(s, dot) ==
    IF dot < 0 THEN <<s>>
    ELSE <<SubSeq(s, 1, dot)>> \o Split(SubSeq(s, dot + 2, Len(s)))

Split(s) == SplitAt(s, StrFind(s, <<".">>, 0))

\* list.index(x): 1-based position of the first x, 0 when x is not in the list
ListIndex(list, x) == Least({i \in 1..Len(list) : list[i] = x}, 0)

\* SqlRecord._parse_alias(alias): has_function and has_column tell which of
\* the returned names are not None
Parsed(error, has_function, function_name, has_column, table_fully_qualified_name,
       column_name) ==
    [error |-> error, has_function |-> has_function, function_name |-> function_name,
     has_column |-> has_column, table_fully_qualified_name |-> table_fully_qualified_name,
     column_name |-> column_name]

\* the alias split into alias_parts, with the positions f and c of
\* "FUNCTION" and "COLUMN" in them (0: not there) and the parts after "COLUMN"
ParsedParts(alias_parts, f, c, parts) ==
    IF f > 0 /\ f + 1 > Len(alias_parts)
    THEN Parsed("IndexError", FALSE, NoName, FALSE, NoName, NoName)
    ELSE IF c > 0 /\ Len(parts) = 0
    THEN Parsed("IndexError", FALSE, NoName, FALSE, NoName, NoName)
    ELSE Parsed("none", f > 0, IF f > 0 THEN alias_parts[f + 1] ELSE NoName,
                c > 0,
                IF c > 0 THEN Join(SubSeq(parts, 1, Len(parts) - 1), <<".">>) ELSE NoName,
                IF c > 0 THEN parts[Len(parts)] ELSE NoName)

ParsedFrom(alias_parts, c) ==
    ParsedParts(alias_parts, ListIndex(alias_parts, S_FUNCTION), c,
                SubSeq(alias_parts, c + 1, Len(alias_parts)))

AliasParts(alias_parts) == ParsedFrom(alias_parts, ListIndex(alias_parts, S_COLUMN))

_parse_alias(text) == AliasParts(Split(text))

\* database._parse_table_fully_qualified_name(name) of SqliteDatabase and
\* of SqlServerDatabase; has_database tells that database_name is not None
TableName(error, has_database, database_name, a_schema_name, table_name) ==
    [error |-> error, has_database |-> has_database, database_name |-> database_name,
     schema_name |-> a_schema_name, table_name |-> table_name]

TableNameParts(database, parts) ==
    IF database.dialect = SQLSERVER
    THEN IF Len(parts) = 3 THEN TableName("none", TRUE, parts[1], parts[2], parts[3])
         ELSE TableName("AssertionError", FALSE, NoName, NoName, NoName)
    ELSE IF Len(parts) = 1 THEN TableName("none", FALSE, NoName, NoName, parts[1])
    ELSE IF Len(parts) = 2 THEN TableName("none", TRUE, parts[1], NoName, parts[2])
    ELSE TableName("AssertionError", FALSE, NoName, NoName, NoName)

_parse_table_fully_qualified_name(database, table_fully_qualified_name) ==
    TableNameParts(database, Split(table_fully_qualified_name))

\* what a lookup gives: the object found, or the exception raised
Found(error, object) == [error |-> error, object |-> object]

\* self.attached_databases[database_name]
Attached(database, database_name) ==
    LET i == Least({k \in 1..Len(database.attached_databases) :
                      database.attached_databases[k][1] = database_name}, 0)
    IN IF i = 0 THEN 0 ELSE database.attached_databases[i][2]

\* database.get_table(table_fully_qualified_name), database being bound[self]
\* the table found at index t of the tables of `database` (0: none, and 0
\* for no such attached database), n being the parsed name
TableFound(n, database, t) ==
    IF n.error # "none" THEN Found(n.error, <<>>)
    ELSE IF database = 0 THEN Found("KeyError", <<>>)
    ELSE IF t = 0 THEN Found("AssertionError", <<>>)
    ELSE Found("none", <<database, t>>)

TableIn(bound, n, database) ==
    TableFound(n, database,
               IF database = 0 THEN 0
               ELSE Least({k \in 1..Len(bound[database].tables) :
                             /\ bound[database].tables[k].name = n.table_name
                             /\ schema_name(bound, <<database, k>>) = n.schema_name}, 0))

TableNamed(bound, self, n) ==
    TableIn(bound, n,
            IF n.has_database /\ n.database_name # bound[self].name
            THEN Attached(bound[self], n.database_name) ELSE self)

get_table(bound, self, table_fully_qualified_name) ==
    TableNamed(bound, self,
               _parse_table_fully_qualified_name(bound[self], table_fully_qualified_name))

\* table.get_column(column_name)
get_column(bound, table, column_name) ==
    LET c == Least({k \in 1..Len(BoundTable(bound, table).columns) :
                      BoundTable(bound, table).columns[k].name = column_name}, 0)
    IN IF c = 0 THEN Found("AssertionError", NoItem)
       ELSE Found("none", ColumnItem(<<table[1], table[2], c>>))

\* SqlRecord._get_item_by_alias(alias, database), database being bound[self]
\* the item of the parsed alias p, given what the lookup of its column gave
ItemOf(p, column) ==
    IF p.error # "none" THEN Found(p.error, NoItem)
    ELSE IF column.error # "none" THEN column
    ELSE IF p.has_function
    THEN IF ~Contains(SqlFunctions, p.function_name) THEN Found("ValueError", NoItem)
         ELSE IF column.object = NoItem
                 /\ p.function_name \in SqlAggregateFunctionWithMandatoryColumn
         THEN Found("AssertionError", NoItem)
         ELSE Found("none", SqlAggregateFunction(p.function_name, column.object.column))
    ELSE IF column.object # NoItem THEN column
    ELSE Found("AssertionError", NoItem)

ColumnOf(bound, p, table) ==
    IF table.error # "none" THEN Found(table.error, NoItem)
    ELSE get_column(bound, table.object, p.column_name)

ItemOfParsed(bound, self, p) ==
    ItemOf(p, IF p.error # "none" \/ ~p.has_column THEN Found("none", NoItem)
              ELSE ColumnOf(bound, p, get_table(bound, self, p.table_fully_qualified_name)))

_get_item_by_alias(bound, text, self) == ItemOfParsed(bound, self, _parse_alias(text))

----------------------------------------------------------------------------
(* Python values and their text forms.  A value carries its class in       *)
(* `type`; the field of that class holds it and the others are empty.      *)

MaxBytes == 3       \* length of a bytes value
MaxItems == 2       \* items of a record

PyValue(type, n, text, bytes, date, time) ==
    [type |-> type, n |-> n, text |-> text, bytes |-> bytes, date |-> date, time |-> time]
PyNone == PyValue("NoneType", 0, <<>>, <<>>, <<>>, <<>>)
PyInt(n) == PyValue("int", n, <<>>, <<>>, <<>>, <<>>)
PyStr(text) == PyValue("str", 0, text, <<>>, <<>>, <<>>)
PyBytes(bytes) == PyValue("bytes", 0, <<>>, bytes, <<>>, <<>>)
PyDate(year, month, day) == PyValue("date", 0, <<>>, <<>>, <<year, month, day>>, <<>>)
PyTime(hour, minute, second) ==
    PyValue("time", 0, <<>>, <<>>, <<>>, <<hour, minute, second>>)
PyDateTime(year, month, day, hour, minute, second) ==
    PyValue("datetime", 0, <<>>, <<>>, <<year, month, day>>, <<hour, minute, second>>)

\* what a conversion gives: the value, or the exception raised
Converted(error, value) == [error |-> error, value |-> value]

\* str(n).zfill(width)
RECURSIVE ZFill(_, _)
ZFill(s, width) == IF Len(s) >= width THEN s ELSE ZFill(<<"0">> \o s, width)

\* date.isoformat(), time.isoformat() with no microsecond, datetime.isoformat()
DateText(date) ==
    ZFill(IntToStr(date[1]), 4) \o <<"-">> \o ZFill(IntToStr(date[2]), 2) \o <<"-">>
        \o ZFill(IntToStr(date[3]), 2)
TimeText(time) ==
    ZFill(IntToStr(time[1]), 2) \o <<":">> \o ZFill(IntToStr(time[2]), 2) \o <<":">>
        \o ZFill(IntToStr(time[3]), 2)
isoformat(value) ==
    IF value.type = "date" THEN DateText(value.date)
    ELSE IF value.type = "time" THEN TimeText(value.time)
    ELSE DateText(value.date) \o <<"T">> \o TimeText(value.time)

IsDigits(s) == \A i \in 1..Len(s) : s[i] \in Digit

DaysIn(year, month) ==
    IF month \in {4, 6, 9, 11} THEN 30
    ELSE IF month # 2 THEN 31
    ELSE IF year % 4 = 0 /\ (year % 100 # 0 \/ year % 400 = 0) THEN 29
    ELSE 28

\* the text is YYYY-MM-DD and names a day of the calendar
IsDateText(s) ==
    /\ Len(s) = 10
    /\ s[5] = "-" /\ s[8] = "-"
    /\ IsDigits(SubSeq(s, 1, 4)) /\ IsDigits(SubSeq(s, 6, 7)) /\ IsDigits(SubSeq(s, 9, 10))
    /\ ParseInt(SubSeq(s, 1, 4)) >= 1
    /\ ParseInt(SubSeq(s, 6, 7)) \in 1..12
    /\ ParseInt(SubSeq(s, 9, 10)) \in
           1..DaysIn(ParseInt(SubSeq(s, 1, 4)), ParseInt(SubSeq(s, 6, 7)))

\* the text is HH:MM:SS and names a time of the day
IsTimeText(s) ==
    /\ Len(s) = 8
    /\ s[3] = ":" /\ s[6] = ":"
    /\ IsDigits(SubSeq(s, 1, 2)) /\ IsDigits(SubSeq(s, 4, 5)) /\ IsDigits(SubSeq(s, 7, 8))
    /\ ParseInt(SubSeq(s, 1, 2)) \in 0..23
    /\ ParseInt(SubSeq(s, 4, 5)) \in 0..59
    /\ ParseInt(SubSeq(s, 7, 8)) \in 0..59

DateOf(s) == <<ParseInt(SubSeq(s, 1, 4)), ParseInt(SubSeq(s, 6, 7)), ParseInt(SubSeq(s, 9, 10))>>
TimeOf(s) == <<ParseInt(SubSeq(s, 1, 2)), ParseInt(SubSeq(s, 4, 5)), ParseInt(SubSeq(s, 7, 8))>>

\* datetime.date.fromisoformat(value), on the texts isoformat() writes: a
\* text with a time part, or with nothing but a time, is no date
date_fromisoformat(value) ==
    IF value.type # "str" THEN Converted("TypeError", PyNone)
    ELSE IF IsDateText(value.text)
    THEN Converted("none", PyValue("date", 0, <<>>, <<>>, DateOf(value.text), <<>>))
    ELSE Converted("ValueError", PyNone)

\* datetime.time.fromisoformat(value)
time_fromisoformat(value) ==
    IF value.type # "str" THEN Converted("TypeError", PyNone)
    ELSE IF IsTimeText(value.text)
    THEN Converted("none", PyValue("time", 0, <<>>, <<>>, <<>>, TimeOf(value.text)))
    ELSE Converted("ValueError", PyNone)

\* datetime.datetime.fromisoformat(value)
datetime_fromisoformat(value) ==
    IF value.type # "str" THEN Converted("TypeError", PyNone)
    ELSE IF /\ Len(value.text) = 19
            /\ value.text[11] = "T"
            /\ IsDateText(SubSeq(value.text, 1, 10))
            /\ IsTimeText(SubSeq(value.text, 12, 19))
    THEN Converted("none", PyValue("datetime", 0, <<>>, <<>>,
                                   DateOf(SubSeq(value.text, 1, 10)),
                                   TimeOf(SubSeq(value.text, 12, 19))))
    ELSE Converted("ValueError", PyNone)

\* the base64 alphabet: the digit of value v is Base64Alphabet[v + 1]
Base64Alphabet ==
    <<"A","B","C","D","E","F","G","H","I","J","K","L","M","N","O","P",
      "Q","R","S","T","U","V","W","X","Y","Z","a","b","c","d","e","f",
      "g","h","i","j","k","l","m","n","o","p","q","r","s","t","u","v",
      "w","x","y","z","0","1","2","3","4","5","6","7","8","9","+","/">>

Base64Digit(c) == ListIndex(Base64Alphabet, c) - 1

\* base64.b64encode(bytes).decode("ascii"): three bytes give four digits,
\* a last group of one or two bytes is padded with "="
RECURSIVE b64encode(_)
b64encode(bytes) ==
    IF Len(bytes) = 0 THEN <<>>
    ELSE LET n == IF Len(bytes) < 3 THEN Len(bytes) ELSE 3
             v == bytes[1] * 65536 + (IF n >= 2 THEN bytes[2] * 256 ELSE 0)
                      + (IF n = 3 THEN bytes[3] ELSE 0)
         IN <<Base64Alphabet[(v \div 262144) + 1],
              Base64Alphabet[((v \div 4096) % 64) + 1],
              IF n >= 2 THEN Base64Alphabet[((v \div 64) % 64) + 1] ELSE "=",
              IF n = 3 THEN Base64Alphabet[(v % 64) + 1] ELSE "=">>
                \o b64encode(SubSeq(bytes, n + 1, Len(bytes)))

\* four digits, the last one or two of which may be padding, give three,
\* two or one bytes
DecodeGroup(group) ==
    LET pad == IF group[3] = "=" THEN 2 ELSE IF group[4] = "=" THEN 1 ELSE 0
        v == Base64Digit(group[1]) * 262144 + Base64Digit(group[2]) * 4096
                 + (IF pad < 2 THEN Base64Digit(group[3]) * 64 ELSE 0)
                 + (IF pad < 1 THEN Base64Digit(group[4]) ELSE 0)
    IN SubSeq(<<v \div 65536, (v \div 256) % 256, v % 256>>, 1, 3 - pad)

RECURSIVE DecodeGroups(_)
DecodeGroups(s) ==
    IF Len(s) = 0 THEN <<>>
    ELSE DecodeGroup(SubSeq(s, 1, 4)) \o DecodeGroups(SubSeq(s, 5, Len(s)))

\* the text is groups of four digits, padded in the last group only
IsPadded(s) ==
    /\ Len(s) % 4 = 0
    /\ \A i \in 1..Len(s) : s[i] = "=" =>
           /\ i >= Len(s) - 1
           /\ i >= 3
           /\ s[Len(s)] = "="

\* base64.b64decode(text.encode("ascii")): characters outside the alphabet
\* are discarded, then the padding must be right
b64decode(text) ==
    LET s == SelectSeq(text, LAMBDA c : c = "=" \/ Contains(Base64Alphabet, c))
    IN IF IsPadded(s) THEN Converted("none", PyBytes(DecodeGroups(s)))
       ELSE Converted("binascii.Error", PyNone)

----------------------------------------------------------------------------
(* Records and JSON.                                                       *)

\* SqlDataType.type: the Python class a data type is constructed with; the
\* classes datetime.date, datetime.time and datetime.datetime are "date",
\* "time" and "datetime"
SqlDataType_type(name) ==
    CASE name = "BLOB" -> "bytes"
      [] name = "BOOLEAN" -> "bool"
      [] name = "DATE" -> "date"
      [] name = "DATETIME" -> "date"
      [] name = "REAL" -> "float"
      [] name = "INTEGER" -> "int"
      [] name = "TEXT" -> "str"
      [] name = "TIME" -> "date"
      [] OTHER -> "str"

\* item.data_type: the name of the data type of the column of the item, ""
\* for None
data_type(bound, item) ==
    IF item.column = NoColumn THEN "" ELSE BoundColumn(bound, item.column).data_type

\* SqlRecord.to_json_value(item, value), the item having no converter of
\* its own
to_json_value(item, value) ==
    IF value.type = "bytes" THEN PyStr(b64encode(value.bytes))
    ELSE IF value.type \in {"date", "datetime", "time"} THEN PyStr(isoformat(value))
    ELSE value

\* SqlRecord.from_json_value(item, value), the item having no converter of
\* its own
\* the same, given item.data_type.type ("" when the item has no data type)
FromJsonAs(type, value) ==
    IF type = "" THEN Converted("none", value)
    ELSE IF type = "bytes"
    THEN IF value.type = "str" THEN b64decode(value.text)
         ELSE Converted("AttributeError", PyNone)
    ELSE IF type = "date" THEN date_fromisoformat(value)
    ELSE IF type = "datetime" THEN datetime_fromisoformat(value)
    ELSE IF type = "time" THEN time_fromisoformat(value)
    ELSE Converted("none", value)

from_json_value(bound, item, value) ==
    FromJsonAs(IF data_type(bound, item) = "" THEN ""
               ELSE SqlDataType_type(data_type(bound, item)), value)

\* a record is its items in insertion order, each with its value
Pair(item, value) == [item |-> item, value |-> value]

\* record[item] = value
RecordSet(bound, record, item, value) ==
    LET i == Least({k \in 1..Len(record) : ItemEq(bound, record[k].item, item)}, 0)
    IN IF i = 0 THEN Append(record, Pair(item, value))
       ELSE [record EXCEPT ![i] = Pair(record[i].item, value)]

\* record == other: the two dicts hold the same keys with the same values
RecordEq(bound, record, other) ==
    /\ Len(record) = Len(other)
    /\ \A i \in 1..Len(record) : \E k \in 1..Len(other) :
           ItemEq(bound, record[i].item, other[k].item) /\ record[i].value = other[k].value

\* record.to_json()
RECURSIVE to_json(_, _, _)
to_json(bound, data, record) ==
    IF Len(record) = 0 THEN data
    ELSE to_json(bound,
                 DictSet(data, alias(bound, record[1].item),
                         to_json_value(record[1].item, record[1].value)),
                 Tail(record))

\* SqlRecord.from_json(data, database), database being bound[self]; i is
\* the entry of data the loop is at and record what it has set so far
RECURSIVE from_json(_, _, _, _, _)
\* the pass for entry i, given the item found for its key and the value
\* converted for it
FromJsonValue(bound, data, self, i, record, found, value) ==
    IF value.error # "none" THEN [error |-> value.error, record |-> <<>>]
    ELSE from_json(bound, data, self, i + 1,
                   RecordSet(bound, record, found.object, value.value))

FromJsonItem(bound, data, self, i, record, found) ==
    IF found.error # "none" THEN [error |-> found.error, record |-> <<>>]
    ELSE FromJsonValue(bound, data, self, i, record, found,
                       from_json_value(bound, found.object, data.values[i]))

from_json(bound, data, self, i, record) ==
    IF i > Len(data.keys) THEN [error |-> "none", record |-> record]
    ELSE FromJsonItem(bound, data, self, i, record,
                      _get_item_by_alias(bound, data.keys[i], self))

----------------------------------------------------------------------------
(* The bound schemas explored, and the calls on them.                      *)

S_main == <<"m", "a", "i", "n">>
S_other == <<"o", "t", "h", "e", "r">>
S_app == <<"a", "p", "p">>
S_log == <<"l", "o", "g">>

PlainColumn(name, type) == SchemaColumn(name, type, NoColumn)

\* a table with a column of every data type that has a text form in JSON
TypedTable ==
    SchemaTable(<<"t">>, NoName,
                <<PlainColumn(<<"a">>, "INTEGER"), PlainColumn(<<"b">>, "BLOB"),
                  PlainColumn(<<"c">>, "DATE"), PlainColumn(<<"d">>, "DATETIME"),
                  PlainColumn(<<"e">>, "TIME"), PlainColumn(<<"s">>, "TEXT")>>)
SmallTable(name) == SchemaTable(name, NoName, <<PlainColumn(<<"a">>, "INTEGER")>>)

\* each is a list of databases, the first being the one the calls are made
\* on: SqliteDatabase names every database "main"; SqlServerDatabase names
\* it as the server does; the caller attaches a database under a name
BoundSchemas ==
    <<  \* a SQLite database
        <<SchemaDatabase(S_main, SQLITE, <<TypedTable>>, <<>>)>>,
        \* a SQLite database with another attached as "other"
        <<SchemaDatabase(S_main, SQLITE, <<SmallTable(<<"t">>)>>, <<<<S_other, 2>>>>),
          SchemaDatabase(S_main, SQLITE, <<SmallTable(<<"u">>), SmallTable(<<"t">>)>>, <<>>)>>,
        \* a SQL Server database
        <<SchemaDatabase(S_app, SQLSERVER, <<TypedTable>>, <<>>)>>,
        \* a SQL Server database with another attached under its name
        <<SchemaDatabase(S_app, SQLSERVER, <<SmallTable(<<"t">>)>>, <<<<S_log, 2>>>>),
          SchemaDatabase(S_log, SQLSERVER, <<SmallTable(<<"u">>), SmallTable(<<"t">>)>>, <<>>)>>
    >>

\* the columns of the tables of database d
ColumnsOfDatabase(bound, d) ==
    UNION {{<<d, t, c>> : c \in 1..Len(bound[d].tables[t].columns)} :
           t \in 1..Len(bound[d].tables)}

\* the columns of the tables of the first database and of those attached to it
ColumnsOfSchema(bound) ==
    UNION {ColumnsOfDatabase(bound, d) : d \in 1..Len(bound)}

\* the items over these columns: the columns, and the aggregate functions
\* over one of them or, for count, over none
ItemsOfSchema(bound) ==
    {ColumnItem(column) : column \in ColumnsOfSchema(bound)}
    \cup {SqlAggregateFunction(SqlFunctions[f], column) :
              f \in 1..Len(SqlFunctions), column \in ColumnsOfSchema(bound)}
    \cup {SqlAggregateFunction(S_count, NoColumn)}

\* the values a caller holds for a column of a data type
ValuesOf(type) ==
    CASE type = "INTEGER" -> {PyInt(7)}
      [] type = "BLOB" -> {PyBytes(bytes) : bytes \in SeqsOf({0, 255}, 0, MaxBytes)}
      [] type = "DATE" -> {PyDate(2024, 2, 29), PyDate(1999, 12, 31)}
      [] type = "DATETIME" ->
             {PyDateTime(2024, 2, 29, 0, 0, 0), PyDateTime(1999, 12, 31, 23, 59, 58)}
      [] type = "TIME" -> {PyTime(0, 0, 0), PyTime(23, 59, 58)}
      [] OTHER -> {PyStr(<<"x">>)}

\* the records over the columns of the first database: up to MaxItems
\* columns, no column twice, each with a value of its data type
PairsOf(bound) ==
    UNION {{Pair(ColumnItem(column), value) :
                value \in ValuesOf(BoundColumn(bound, column).data_type)} :
           column \in ColumnsOfDatabase(bound, 1)}
RecordsOf(bound) ==
    {record \in SeqsOf(PairsOf(bound), 1, MaxItems) :
        \A i, k \in 1..Len(record) : i # k => record[i].item # record[k].item}

----------------------------------------------------------------------------
(* Joins and the items of ORDER BY.                                        *)

MaxOrderBy == 4     \* entries of an order-by list

ESqlJoinType == {"CROSS", "FULL", "INNER", "LEFT", "RIGHT"}

\* table.foreign_key_columns, in the order of the columns
foreign_key_columns(bound, table) ==
    SelectSeq([c \in 1..Len(BoundTable(bound, table).columns) |-> <<table[1], table[2], c>>],
              LAMBDA column : BoundColumn(bound, column).reference # NoColumn)

\* self.get_foreign_key_column(table): the first foreign key column of
\* self whose reference is one of the columns of table, NoColumn for None
get_foreign_key_column(bound, self, table) ==
    LET found == SelectSeq(foreign_key_columns(bound, self),
                           LAMBDA column :
                               TableOfColumn(BoundColumn(bound, column).reference) = table)
    IN  IF found = <<>> THEN NoColumn ELSE found[1]

\* SqlJoin(table, *columns, type_=type_)
SqlJoin(table, cols, type_) ==
    [table |-> table, columns |-> cols, type |-> type_, operator |-> "IS_EQUAL"]
NoJoin == [table |-> <<>>, columns |-> <<>>, type |-> "", operator |-> ""]

\* faulty variant of join: the foreign key of self is looked for first
JoinOwnKeyFirst(bound, self, table, join_type) ==
    LET own == get_foreign_key_column(bound, self, table)
        foreign_key_column ==
            IF own # NoColumn THEN own ELSE get_foreign_key_column(bound, table, self)
    IN  IF foreign_key_column = NoColumn THEN [error |-> "AssertionError", join |-> NoJoin]
        ELSE [error |-> "none",
              join |-> SqlJoin(table, <<foreign_key_column,
                                        BoundColumn(bound, foreign_key_column).reference>>,
                               join_type)]

\* self.join(table, join_type)
join(bound, self, table, join_type) ==
    LET other == get_foreign_key_column(bound, table, self)
        foreign_key_column ==
            IF other # NoColumn THEN other ELSE get_foreign_key_column(bound, self, table)
    IN  IF foreign_key_column = NoColumn THEN [error |-> "AssertionError", join |-> NoJoin]
        ELSE [error |-> "none",
              join |-> SqlJoin(table, <<foreign_key_column,
                                        BoundColumn(bound, foreign_key_column).reference>>,
                               join_type)]

\* bound schemas with foreign keys, each one SQLite database: a chain of
\* three tables and a table apart; two tables that reference each other,
\* a table that references itself and a table with two foreign keys; and a
\* child whose foreign key references the parent of another database
Id == PlainColumn(<<"i", "d">>, "INTEGER")
ForeignKey(name, reference) == SchemaColumn(name, "INTEGER", reference)
JoinSchemas ==
    <<  <<SchemaDatabase(S_main, SQLITE,
              <<SchemaTable(<<"p">>, NoName, <<Id>>),
                SchemaTable(<<"k">>, NoName, <<Id, ForeignKey(<<"p">>, <<1, 1, 1>>)>>),
                SchemaTable(<<"g">>, NoName, <<ForeignKey(<<"k">>, <<1, 2, 1>>)>>),
                SchemaTable(<<"u">>, NoName, <<Id>>)>>, <<>>)>>,
        <<SchemaDatabase(S_main, SQLITE,
              <<SchemaTable(<<"x">>, NoName, <<Id, ForeignKey(<<"y">>, <<1, 2, 1>>)>>),
                SchemaTable(<<"y">>, NoName, <<Id, ForeignKey(<<"x">>, <<1, 1, 1>>)>>),
                SchemaTable(<<"s">>, NoName, <<Id, ForeignKey(<<"s">>, <<1, 3, 1>>)>>),
                SchemaTable(<<"m">>, NoName, <<ForeignKey(<<"s">>, <<1, 3, 1>>),
                                               ForeignKey(<<"x">>, <<1, 1, 1>>)>>)>>,
              <<>>)>>,
        <<SchemaDatabase(S_main, SQLITE,
              <<SchemaTable(<<"k">>, NoName, <<ForeignKey(<<"p">>, <<2, 1, 1>>)>>),
                SchemaTable(<<"p">>, NoName, <<Id>>)>>, <<>>),
          SchemaDatabase(S_main, SQLITE, <<SchemaTable(<<"p">>, NoName, <<Id>>)>>, <<>>)>>
    >>

TablesOfDatabase(bound, d) == {<<d, t>> : t \in 1..Len(bound[d].tables)}

\* an entry of an order-by list: an item, or a member of ESqlOrderByType
ASCENDING == [kind |-> "order", name |-> <<"A", "S", "C">>, column |-> NoColumn]
DESCENDING == [kind |-> "order", name |-> <<"D", "E", "S", "C">>, column |-> NoColumn]
IsItem(entry) == entry.kind \in {"column", "function"}
IsOrderByType(entry) == entry.kind = "order"
OrderByEntries ==
    {ColumnItem(<<1, 1, 1>>), SqlAggregateFunction(S_count, NoColumn), ASCENDING, DESCENDING}

\* the tuple (item, order), order being NoItem for None
OrderBy(item, order) == [item |-> item, order |-> order]

\* the state of the loop of _preprocess_order_by_items: `at` is "loop"
\* while it runs, "returned" or "raised" when it is over
Loop(at, index, preprocessed_order_by_items) ==
    [at |-> at, index |-> index,
     preprocessed_order_by_items |-> preprocessed_order_by_items]

\* faulty variant of OrderByLoop: a marker is taken with its item but the
\* index moves by one only
OrderByLoopKeepingMarker(order_by_items, s) ==
    LET item == order_by_items[s.index + 1]
        order == IF s.index + 1 < Len(order_by_items)
                    /\ IsOrderByType(order_by_items[s.index + 2])
                 THEN order_by_items[s.index + 2] ELSE NoItem
    IN  IF ~(s.index < Len(order_by_items))
        THEN Loop("returned", s.index, s.preprocessed_order_by_items)
        ELSE IF ~IsItem(item)
        THEN Loop("raised", s.index, s.preprocessed_order_by_items)
        ELSE Loop("loop", s.index + 1,
                  Append(s.preprocessed_order_by_items, OrderBy(item, order)))

\* the test of the while loop and one pass through its body; the index is
\* that of the source, counted from 0
OrderByLoop(order_by_items, s) ==
    LET item == order_by_items[s.index + 1]
        taken == s.index + 1 < Len(order_by_items)
                    /\ IsOrderByType(order_by_items[s.index + 2])
        order == IF taken THEN order_by_items[s.index + 2] ELSE NoItem
    IN  IF ~(s.index < Len(order_by_items))
        THEN Loop("returned", s.index, s.preprocessed_order_by_items)
        ELSE IF ~IsItem(item)
        THEN Loop("raised", s.index, s.preprocessed_order_by_items)
        ELSE Loop("loop", IF taken THEN s.index + 2 ELSE s.index + 1,
                  Append(s.preprocessed_order_by_items, OrderBy(item, order)))

\* table.referenced_tables: the tables of the references of the columns,
\* in the order of the columns
referenced_tables(bound, table) ==
    LET keys == foreign_key_columns(bound, table)
    IN  [i \in 1..Len(keys) |-> TableOfColumn(BoundColumn(bound, keys[i]).reference)]

\* the set built by the two for loops of one pass of drop_all_tables
ReferencedTables(bound, unsorted_tables) ==
    UNION {{referenced_tables(bound, table)[i] :
                i \in 1..Len(referenced_tables(bound, table))} :
           table \in unsorted_tables}

\* the orders in which a set can be iterated
Orders(S) ==
    {order \in [1..Cardinality(S) -> S] :
        \A i, k \in 1..Cardinality(S) : i # k => order[i] # order[k]}

\* drop_all_tables under way: `at` is "ordering" in the while loop,
\* "dropping" in the for loop, "committed" at the end; `executed` lists the
\* tables dropped, each with the if_exists of the call, and, last, the commit
Committed == <<0, 0>>
Dropping(at, if_exists, unsorted_tables, sorted_tables, executed) ==
    [at |-> at, if_exists |-> if_exists, unsorted_tables |-> unsorted_tables,
     sorted_tables |-> sorted_tables, executed |-> executed]
NoDrop == Dropping("", FALSE, {}, <<>>, <<>>)

\* faulty variant of OrderingPass: the unreferenced tables are put in front
OrderingPassInFront(bound, s, unreferenced_tables) ==
    IF s.unsorted_tables = {}
    THEN Dropping("dropping", s.if_exists, {}, s.sorted_tables, s.executed)
    ELSE Dropping("ordering", s.if_exists, ReferencedTables(bound, s.unsorted_tables),
                  unreferenced_tables \o s.sorted_tables, s.executed)

\* the test of the while loop and one pass through its body;
\* unreferenced_tables is the set of that name as extend() iterates it
OrderingPass(bound, s, unreferenced_tables) ==
    IF s.unsorted_tables = {}
    THEN Dropping("dropping", s.if_exists, {}, s.sorted_tables, s.executed)
    ELSE Dropping("ordering", s.if_exists, ReferencedTables(bound, s.unsorted_tables),
                  s.sorted_tables \o unreferenced_tables, s.executed)

\* the for loop over sorted_tables drops the next table; after the last
\* one comes the commit
DropNext(s) ==
    IF Len(s.executed) < Len(s.sorted_tables)
    THEN Dropping("dropping", s.if_exists, {}, s.sorted_tables,
                  Append(s.executed, s.sorted_tables[Len(s.executed) + 1]))
    ELSE Dropping("committed", s.if_exists, {}, s.sorted_tables, Append(s.executed, Committed))

\* the databases whose tables are dropped: those of JoinSchemas, one whose
\* table d is referenced by tables on three levels, one of a single table
\* that references itself, one without tables, and one of three tables
\* apart and a fourth that references one of them
DropSchemas ==
    JoinSchemas \o
    <<  <<SchemaDatabase(S_main, SQLITE,
              <<SchemaTable(<<"d">>, NoName, <<Id>>),
                SchemaTable(<<"a">>, NoName, <<ForeignKey(<<"b">>, <<1, 3, 1>>),
                                               ForeignKey(<<"c">>, <<1, 4, 1>>),
                                               ForeignKey(<<"d">>, <<1, 1, 1>>)>>),
                SchemaTable(<<"b">>, NoName, <<Id, ForeignKey(<<"d">>, <<1, 1, 1>>)>>),
                SchemaTable(<<"c">>, NoName, <<Id, ForeignKey(<<"d">>, <<1, 1, 1>>)>>)>>,
              <<>>)>>,
        <<SchemaDatabase(S_main, SQLITE,
              <<SchemaTable(<<"s">>, NoName, <<Id, ForeignKey(<<"s">>, <<1, 1, 1>>)>>)>>,
              <<>>)>>,
        <<SchemaDatabase(S_main, SQLITE, <<>>, <<>>)>>,
        <<SchemaDatabase(S_main, SQLITE,
              <<SchemaTable(<<"p">>, NoName, <<Id>>),
                SchemaTable(<<"q">>, NoName, <<Id>>),
                SchemaTable(<<"r">>, NoName, <<Id>>),
                SchemaTable(<<"k">>, NoName, <<ForeignKey(<<"p">>, <<1, 1, 1>>)>>)>>,
              <<>>)>>
    >>

----------------------------------------------------------------------------
(* Insertion of several records with one statement.                        *)

MaxBulk == 2        \* records of one insert_records call

\* data_type.to_database_converter(value): the date and time types give
\* ISO text on SQLite and the value itself elsewhere; the other types of
\* the explored tables have no converter
data_type_to_database_converter(bound, item, value) ==
    IF /\ data_type(bound, item) \in {"DATE", "DATETIME", "TIME"}
       /\ bound[item.column[1]].dialect = SQLITE
    THEN PyStr(isoformat(value))
    ELSE value

\* SqlRecord.to_database_value(item, value), the item having no converter
\* of its own
to_database_value(bound, item, value) ==
    data_type_to_database_converter(bound, item, value)

\* record.to_database_parameters(), the parameter generated for an item
\* being named by the item: the parameters in the order of the record
DatabaseParameters(bound, record) ==
    [i \in 1..Len(record) |->
        Pair(record[i].item, to_database_value(bound, record[i].item, record[i].value))]

\* the inner for loop of insert_records over
\* zip(template_parameters.keys(), record.values())
Rebound(template_parameters, record) ==
    [i \in 1..Len(template_parameters) |->
        IF i <= Len(record)
        THEN Pair(template_parameters[i].item, record[i].value)
        ELSE template_parameters[i]]

\* the loop of insert_records: what the statement holds at each execution;
\* the index is that of the source, counted from 0
RECURSIVE Executions(_, _, _, _)
Executions(template_parameters, records, index, executed) ==
    IF index = Len(records) THEN executed
    ELSE LET parameters == IF index > 0
                           THEN Rebound(template_parameters, records[index + 1])
                           ELSE template_parameters
         IN  Executions(parameters, records, index + 1, Append(executed, parameters))

\* database.insert_records(table, records) with the parameters of every
\* execution, given the cursor each execution returns
NoInsertion == [records |-> <<>>, executed |-> <<>>, cursors |-> <<>>, ids |-> <<>>,
                none |-> FALSE]
insert_records_of(bound, records, cursors) ==
    [records |-> records,
     executed |-> Executions(DatabaseParameters(bound, records[1]), records, 0, <<>>),
     cursors |-> cursors,
     ids |-> CollectIds(<<>>, cursors),
     none |-> Len(CollectIds(<<>>, cursors)) = 0]

\* the databases inserted into: one of SQLite and one of SQL Server, each
\* with a table of an INTEGER and a DATE column
BulkTable ==
    SchemaTable(<<"t">>, NoName,
                <<PlainColumn(<<"a">>, "INTEGER"), PlainColumn(<<"c">>, "DATE")>>)
BulkSchemas ==
    <<  <<SchemaDatabase(S_main, SQLITE, <<BulkTable>>, <<>>)>>,
        <<SchemaDatabase(S_app, SQLSERVER, <<BulkTable>>, <<>>)>>  >>
BulkValues(type) ==
    IF type = "INTEGER" THEN {PyInt(1), PyInt(2)}
    ELSE {PyDate(2024, 2, 29), PyDate(1999, 12, 31)}
BulkRecords(bound) ==
    LET pairs == UNION {{Pair(ColumnItem(column), value) :
                            value \in BulkValues(BoundColumn(bound, column).data_type)} :
                        column \in ColumnsOfDatabase(bound, 1)}
    IN  {record \in SeqsOf(pairs, 1, MaxItems) :
            \A i, k \in 1..Len(record) : i # k => record[i].item # record[k].item}

\* what a call took and gave: the schema and the record, the JSON made of
\* it and the record made of the JSON; the item with its alias and the item
\* the alias resolved to; the two tables and the type of a join with the
\* join made; the order-by list, whether it was given at all, and the loop
\* over it; drop_all_tables under way; the records of an insertion with
\* the parameters of every execution and the ids
NoAsked ==
    [op |-> "none", error |-> "none", schema |-> 0, record |-> <<>>,
     data |-> DictOf(<<>>, <<>>), decoded |-> <<>>,
     item |-> NoItem, alias |-> NoName, found |-> NoItem,
     self |-> <<>>, table |-> <<>>, join_type |-> "", join |-> NoJoin,
     given |-> FALSE, order_by_items |-> <<>>, loop |-> Loop("", 0, <<>>),
     drop |-> NoDrop, insertion |-> NoInsertion]

\* record.to_json() on a record of the first database
ToJson ==
    /\ asked.op = "none"
    /\ \E w \in 1..Len(BoundSchemas) : \E record \in RecordsOf(BoundSchemas[w]) :
           asked' = [NoAsked EXCEPT !.op = "to_json", !.schema = w, !.record = record,
                        !.data = to_json(BoundSchemas[w], DictOf(<<>>, <<>>), record)]
    /\ UNCHANGED <<transpiler, graph, builders>>

\* SqlRecord.from_json(data, database) on the JSON the last call gave
FromJson ==
    /\ asked.op = "to_json"
    /\ LET r == from_json(BoundSchemas[asked.schema], asked.data, 1, 1, <<>>)
       IN asked' = [asked EXCEPT !.op = "from_json", !.error = r.error,
                       !.decoded = r.record]
    /\ UNCHANGED <<transpiler, graph, builders>>

\* what the call on the alias of an item of schema w leaves
AliasFound(w, item, text, found) ==
    [NoAsked EXCEPT !.op = "_get_item_by_alias", !.schema = w, !.item = item,
                    !.alias = text, !.error = found.error, !.found = found.object]
AliasAsked(w, item, text) ==
    AliasFound(w, item, text, _get_item_by_alias(BoundSchemas[w], text, 1))

\* SqlRecord._get_item_by_alias(item.alias, database) for an item of the
\* first database or of one attached to it
GetItemByAlias ==
    /\ asked.op = "none"
    /\ \E w \in 1..Len(BoundSchemas) : \E item \in ItemsOfSchema(BoundSchemas[w]) :
           asked' = AliasAsked(w, item, alias(BoundSchemas[w], item))
    /\ UNCHANGED <<transpiler, graph, builders>>

\* self.join(table, join_type) on two tables of the first database
JoinTables ==
    /\ asked.op = "none"
    /\ \E w \in 1..Len(JoinSchemas) :
       \E self \in TablesOfDatabase(JoinSchemas[w], 1) :
       \E table \in TablesOfDatabase(JoinSchemas[w], 1) :
       \E join_type \in ESqlJoinType :
           LET r == join(JoinSchemas[w], self, table, join_type)
           IN asked' = [NoAsked EXCEPT !.op = "join", !.schema = w, !.self = self,
                           !.table = table, !.join_type = join_type,
                           !.error = r.error, !.join = r.join]
    /\ UNCHANGED <<transpiler, graph, builders>>

\* _preprocess_order_by_items(order_by_items) is entered: None is returned
\* for None, the loop starts for a list
PreprocessOrderByItems ==
    /\ asked.op = "none"
    /\ \/ asked' = [NoAsked EXCEPT !.op = "order_by", !.loop = Loop("returned", 0, <<>>)]
       \/ \E order_by_items \in SeqsOf(OrderByEntries, 0, MaxOrderBy) :
              asked' = [NoAsked EXCEPT !.op = "order_by", !.given = TRUE,
                           !.order_by_items = order_by_items,
                           !.loop = Loop("loop", 0, <<>>)]
    /\ UNCHANGED <<transpiler, graph, builders>>

\* the loop of _preprocess_order_by_items goes round once, or ends
PreprocessOrderByItem ==
    /\ asked.op = "order_by"
    /\ asked.loop.at = "loop"
    /\ LET s == OrderByLoop(asked.order_by_items, asked.loop)
       IN asked' = [asked EXCEPT !.loop = s,
                       !.error = IF s.at = "raised" THEN "AssertionError" ELSE "none"]
    /\ UNCHANGED <<transpiler, graph, builders>>

\* database.drop_all_tables() is entered, on the first database of a schema
DropAllTables ==
    /\ asked.op = "none"
    /\ \E w \in 1..Len(DropSchemas), if_exists \in BOOLEAN :
           asked' = [NoAsked EXCEPT !.op = "drop_all_tables", !.schema = w,
                        !.drop = Dropping("ordering", if_exists,
                                          TablesOfDatabase(DropSchemas[w], 1),
                                          <<>>, <<>>)]
    /\ UNCHANGED <<transpiler, graph, builders>>

\* the while loop of drop_all_tables goes round once, or ends
OrderTables ==
    /\ asked.op = "drop_all_tables"
    /\ asked.drop.at = "ordering"
    /\ LET bound == DropSchemas[asked.schema]
           s == asked.drop
       IN  \E unreferenced_tables \in
                  Orders(s.unsorted_tables \ ReferencedTables(bound, s.unsorted_tables)) :
               asked' = [asked EXCEPT !.drop = OrderingPass(bound, s, unreferenced_tables)]
    /\ UNCHANGED <<transpiler, graph, builders>>

\* the for loop of drop_all_tables drops a table, or ends with the commit
DropTables ==
    /\ asked.op = "drop_all_tables"
    /\ asked.drop.at = "dropping"
    /\ asked' = [asked EXCEPT !.drop = DropNext(asked.drop)]
    /\ UNCHANGED <<transpiler, graph, builders>>

\* ids = database.insert_records(table, records) on the first database;
\* the k-th execution returns a cursor without a description or one whose
\* row holds the id k
InsertRecordsOf ==
    /\ asked.op = "none"
    /\ \E w \in 1..Len(BulkSchemas) :
       \E records \in SeqsOf(BulkRecords(BulkSchemas[w]), 1, MaxBulk) :
       \E described \in [1..Len(records) -> BOOLEAN] :
           LET cursors == [k \in 1..Len(records) |->
                              IF described[k] THEN Cursor(TRUE, k)
                              ELSE Cursor(FALSE, None)]
           IN  asked' = [NoAsked EXCEPT !.op = "insert_records", !.schema = w,
                            !.insertion = insert_records_of(BulkSchemas[w], records,
                                                            cursors)]
    /\ UNCHANGED <<transpiler, graph, builders>>

----------------------------------------------------------------------------
(* Declared schemas with foreign keys.  A table is declared by a columns   *)
(* class whose attributes are columns, an instance of that class held by   *)
(* the table class, and an instance of the table class: the table template. *)
(* A column declared later takes as reference a column of the columns      *)
(* instance of a table declared before.  A tables container deep-copies    *)
(* the templates it lists.                                                 *)

MaxTemplates == 2    \* declared tables
MaxCopies == 4       \* copies of tables made by containers

\* a heap under an operation: the exception raised, the objects it made
Heap(dts, cs, ts) ==
    [data_types |-> dts, columns |-> cs, tables |-> ts, error |-> "none", made |-> <<>>]

\* copy.deepcopy(self, memo={}) of a column on the heap; the copy is made
\* the last of h.made
CopyColumn(h, self) ==
    LET r == SqlColumn__deepcopy__(h.data_types, h.columns, self)
    IN  IF h.error # "none" THEN h
        ELSE IF r.error # "none" THEN [h EXCEPT !.error = r.error]
        ELSE [h EXCEPT !.data_types = r.data_types, !.columns = r.columns,
                       !.made = Append(@, r.column)]

\* the loop of EnumLikeContainer.__init__ over columns: one copy for each,
\* in order, until one raises
RECURSIVE CopyColumns(_, _)
CopyColumns(h, cs) ==
    IF cs = <<>> THEN h ELSE CopyColumns(CopyColumn(h, Head(cs)), Tail(cs))

\* the loop `for column in self.columns: column.table = self`
PointedAt(cs, made, table) ==
    [c \in 1..Len(cs) |-> IF Contains(made, c) THEN [cs[c] EXCEPT !.table = table] ELSE cs[c]]

\* class Columns(SqlColumns): one attribute per reference in `references`,
\* None for a column that references nothing; class Table(SqlTable) with
\* columns = Columns(); template = Table(). The columns are constructed,
\* the container copies them, the table takes the copies as its columns.
\* A table remembers what it was made from: a template the templates its
\* columns were declared to reference, a copy the template it is a copy of
RECURSIVE DeclaredColumns(_, _)
DeclaredColumns(cs, references) ==
    IF references = <<>> THEN cs
    ELSE DeclaredColumns(SqlColumn__init__(cs, 1, Head(references)), Tail(references))

DeclareTemplate(h, references) ==
    LET declared == DeclaredColumns(h.columns, references)
        copied == CopyColumns([h EXCEPT !.columns = declared, !.made = <<>>],
                              [i \in 1..Len(references) |-> Len(h.columns) + i])
    IN  IF copied.error # "none" THEN copied
        ELSE [copied EXCEPT
                 !.columns = PointedAt(@, copied.made, Len(h.tables) + 1),
                 !.tables = Append(@, [columns |-> copied.made, database |-> None,
                                       copy_of |-> None,
                                       parents |-> {h.columns[references[i]].table :
                                                       i \in {k \in 1..Len(references) :
                                                                 references[k] # None}}])]

\* SqlTable.__deepcopy__(self): the attributes are deep-copied, `columns`
\* among them and with it every column, then the copies are pointed at the
\* new table; when a column raises, the copies made before it stay on the
\* heap and no table is made
SqlTable__deepcopy__(h, self) ==
    LET copied == CopyColumns([h EXCEPT !.made = <<>>], h.tables[self].columns)
    IN  IF h.error # "none" THEN h
        ELSE IF copied.error # "none" THEN copied
        ELSE [copied EXCEPT
                 !.columns = PointedAt(@, copied.made, Len(h.tables) + 1),
                 !.tables = Append(@, [columns |-> copied.made, database |-> None,
                                       copy_of |-> self, parents |-> {}])]

\* EnumLikeContainer.__init__ of a SqlTables subclass that lists the given
\* templates: one copy per table, in order, until one raises
RECURSIVE SqlTables__init__(_, _)
SqlTables__init__(h, templates) ==
    IF templates = <<>> THEN h
    ELSE SqlTables__init__(SqlTable__deepcopy__(h, Head(templates)), Tail(templates))

Templates == {t \in 1..Len(tables) : tables[t].copy_of = None}

\* the columns a new declaration can reference: those of the templates
ReferenceColumns == {c \in 1..Len(columns) : columns[c].table \in Templates}

\* a table is declared with one column, which references nothing or a
\* column of a template (that column may itself reference another)
DeclareTable ==
    /\ Cardinality(Templates) < MaxTemplates
    /\ \E references \in {<<None>>} \cup {<<r>> : r \in ReferenceColumns} :
          LET h == DeclareTemplate(Heap(data_types, columns, tables), references)
          IN  /\ data_types' = h.data_types
              /\ columns' = h.columns
              /\ tables' = h.tables
              /\ last' = Done("SqlTable", None,
                              IF h.error = "none" THEN Len(h.tables) ELSE None, h.error)
    /\ UNCHANGED <<transpiler, calls, containers, databases, builders>>

\* the lists of distinct templates, in any order
TemplateLists ==
    {list \in SeqsOf(Templates, 1, MaxTemplates) :
        \A i, k \in 1..Len(list) : i # k => list[i] # list[k]}

\* class Tables(SqlTables) lists templates; tables = Tables(). When a copy
\* raises, the class statement fails and no container is made
DeclareTables ==
    /\ Len(containers) < MaxContainers
    /\ \E templates \in TemplateLists :
          /\ Len(tables) - Cardinality(Templates) + Len(templates) <= MaxCopies
          /\ LET h == SqlTables__init__(Heap(data_types, columns, tables), templates)
             IN  /\ data_types' = h.data_types
                 /\ columns' = h.columns
                 /\ tables' = h.tables
                 /\ containers' =
                        IF h.error # "none" THEN containers
                        ELSE Append(containers,
                                    [i \in 1..Len(templates) |-> Len(tables) + i])
                 /\ last' = Done("SqlTables", None,
                                 IF h.error = "none" THEN Len(containers) + 1 ELSE None,
                                 h.error)
    /\ UNCHANGED <<transpiler, calls, databases, builders>>

----------------------------------------------------------------------------
(* Specifications.                                                         *)

EmptyCache == [k \in {} |-> NoObject]

\* no object made yet beside the catalogue of data types
InitObjects ==
    /\ data_types = SqlDataTypes
    /\ columns = <<>>
    /\ tables = <<>>
    /\ containers = <<>>
    /\ databases = <<>>
    /\ condition = NoCondition
    /\ built = NoBuilt
    /\ last = Nothing
    /\ asked = NoAsked

\* no call of a transpiler made or pending
InitTranspiler ==
    /\ cache = EmptyCache
    /\ input = Arguments(<<>>, NoneParameters, NoneDialect, SQLITE)
    /\ call = NoCall

\* a process that keeps calling transpilers, all sharing the class cache
Init ==
    /\ cache = EmptyCache
    /\ input \in WorkInputs
    /\ call = NoCall
    /\ InitObjects

\* the caller drops the last result and picks the arguments of the next call
NextInput ==
    /\ input' \in WorkInputs
    /\ call' = NoCall
    /\ UNCHANGED <<cache, objects>>

Next ==
    \/ NextInput
    \/ Parse
    \/ TranspileSql
    \/ Transpile
    \/ TranspileParameters

Spec == Init /\ [][Next]_vars

\* the placeholder and parameter functions, each applied to a drawn input
InitPlaceholders ==
    /\ cache = EmptyCache
    /\ input \in PlaceholderInputs
    /\ call = NoCall
    /\ InitObjects

NextPlaceholders ==
    \/ Transpile
    \/ TranspileParameters
    \/ SortParameters
    \/ UpdatePlaceholders

SpecPlaceholders == InitPlaceholders /\ [][NextPlaceholders]_vars

\* the RETURNING / OUTPUT rewrite, applied to a drawn input
InitReturning ==
    /\ cache = EmptyCache
    /\ input \in ReturningInputs
    /\ call = NoCall
    /\ InitObjects

NextReturning ==
    \/ UpdateReturning
    \/ TranspileSql
    \/ Transpile

SpecReturning == InitReturning /\ [][NextReturning]_vars

\* columns are constructed and deep-copied in any order
InitColumns ==
    /\ InitTranspiler
    /\ InitObjects

NextColumns ==
    \/ ConstructColumn
    \/ DeepCopyColumn

SpecColumns == InitColumns /\ [][NextColumns]_vars

\* containers of tables are made and databases are constructed over them
InitDatabases ==
    /\ InitTranspiler
    /\ InitObjects

NextDatabases ==
    \/ NewTables
    \/ NewDatabase

SpecDatabases == InitDatabases /\ [][NextDatabases]_vars

\* a caller builds conditions, renders them and builds statements on them
InitStatements ==
    /\ InitTranspiler
    /\ InitObjects

NextStatements ==
    \/ Compare
    \/ Combine
    \/ ToSql
    \/ Discard
    \/ UpdateStatement

SpecStatements == InitStatements /\ [][NextStatements]_vars

\* a caller inserts records, again and again
InitInserts ==
    /\ InitTranspiler
    /\ InitObjects

NextInserts == InsertRecords

SpecInserts == InitInserts /\ [][NextInserts]_vars

\* the caller drops what the last call gave, once the call is over
Forget ==
    /\ asked.op # "none"
    /\ asked.loop.at # "loop"
    /\ asked.drop.at \in {"", "committed"}
    /\ asked' = NoAsked
    /\ UNCHANGED <<transpiler, graph, builders>>

\* a process that converts records to JSON and back and resolves aliases
InitRecords ==
    /\ InitTranspiler
    /\ InitObjects

NextRecords ==
    \/ ToJson
    \/ FromJson
    \/ GetItemByAlias
    \/ Forget

SpecRecords == InitRecords /\ [][NextRecords]_vars

\* a process that joins the tables of a database
InitJoins ==
    /\ InitTranspiler
    /\ InitObjects

NextJoins ==
    \/ JoinTables
    \/ Forget

SpecJoins == InitJoins /\ [][NextJoins]_vars

\* a process that preprocesses order-by lists; the loop is sequential code
\* of one call, so a pass that can be made is made
InitOrderBy ==
    /\ InitTranspiler
    /\ InitObjects

NextOrderBy ==
    \/ PreprocessOrderByItems
    \/ PreprocessOrderByItem
    \/ Forget

SpecOrderBy == InitOrderBy /\ [][NextOrderBy]_vars /\ WF_vars(PreprocessOrderByItem)

\* a process that drops all tables of databases; the two loops and the
\* commit are sequential code of one call, so a step that can be made is made
InitDrops ==
    /\ InitTranspiler
    /\ InitObjects

NextDrops ==
    \/ DropAllTables
    \/ OrderTables
    \/ DropTables
    \/ Forget

SpecDrops ==
    InitDrops /\ [][NextDrops]_vars /\ WF_vars(OrderTables) /\ WF_vars(DropTables)

\* a process that inserts lists of records
InitBulk ==
    /\ InitTranspiler
    /\ InitObjects

NextBulk ==
    \/ InsertRecordsOf
    \/ Forget

SpecBulk == InitBulk /\ [][NextBulk]_vars

\* a module that declares tables with foreign keys and containers of them,
\* and a process that constructs databases over the containers
InitSchemas ==
    /\ InitTranspiler
    /\ InitObjects

NextSchemas ==
    \/ DeclareTable
    \/ DeclareTables
    \/ NewDatabase

SpecSchemas == InitSchemas /\ [][NextSchemas]_vars

----------------------------------------------------------------------------
(* What the properties speak of: the placeholders of a template as its     *)
(* structure gives them, and the value a caller means for each.            *)

IsPlaceholder(token) == token.kind # "literal"
IsLiteral(token) == token.kind = "literal"

\* the placeholders of a statement body, left to right
Placeholders(body) == SelectSeq(body, IsPlaceholder)

\* the name of a named placeholder, the index of a $i placeholder
PlaceholderName(token) == Tail(token.text)
PlaceholderIndex(token) == ParseInt(Tail(token.text))
IsQuestionMark(token) == token.text = <<"?">>

\* every placeholder has a value in the parameters: each name is a key of
\* the map; a template of ? alone takes exactly as many values as it has ?,
\* and in a template of $i alone each $i is an index of the sequence
Bindable(parameters, holders) ==
    IF parameters.kind = "dict"
    THEN \A i \in 1..Len(holders) :
             KeyIndex(parameters, PlaceholderName(holders[i])) # 0
    ELSE /\ parameters.kind = "seq"
         /\ \/ /\ \A i \in 1..Len(holders) : IsQuestionMark(holders[i])
               /\ Len(parameters.values) = Len(holders)
            \/ /\ Len(holders) > 0
               /\ \A i \in 1..Len(holders) :
                   /\ ~IsQuestionMark(holders[i])
                   /\ PlaceholderIndex(holders[i]) \in 1..Len(parameters.values)

\* the value meant for the i-th placeholder
BoundValue(parameters, holders, i) ==
    IF parameters.kind = "dict"
    THEN parameters.values[KeyIndex(parameters, PlaceholderName(holders[i]))]
    ELSE IF IsQuestionMark(holders[i]) THEN parameters.values[i]
    ELSE parameters.values[PlaceholderIndex(holders[i])]

\* one value per placeholder occurrence, left to right
BoundValues(parameters, holders) ==
    [i \in 1..Len(holders) |-> BoundValue(parameters, holders, i)]

\* the names of the placeholders, each once, in the order of first occurrence
RECURSIVE FirstOccurrences(_, _)
FirstOccurrences(holders, seen) ==
    IF Len(holders) = 0 THEN seen
    ELSE IF \E i \in 1..Len(seen) : seen[i] = PlaceholderName(holders[1])
    THEN FirstOccurrences(Tail(holders), seen)
    ELSE FirstOccurrences(Tail(holders), Append(seen, PlaceholderName(holders[1])))

HasRepeatedName(holders) ==
    \E i, j \in 1..Len(holders) :
        i < j /\ PlaceholderName(holders[i]) = PlaceholderName(holders[j])

\* the text a placeholder takes in the output dialect when it is the i-th
\* placeholder of the statement
ConventionText(token, i, dialect) ==
    IF dialect = SQLITE
    THEN IF token.kind = "named" THEN <<":">> \o PlaceholderName(token)
         ELSE <<":">> \o S_parameter_ \o IntToStr(i)
    ELSE IF dialect = POSTGRESQL THEN <<"$">> \o IntToStr(i)
    ELSE <<"?">>

\* the texts of the elements of a body
Texts(body) == [k \in 1..Len(body) |-> body[k].text]

\* the texts of a body with every placeholder written in the convention of
\* the dialect and every string literal as it stands
ConventionTexts(body, dialect) ==
    [k \in 1..Len(body) |->
        IF IsLiteral(body[k]) THEN body[k].text
        ELSE ConventionText(body[k], Len(Placeholders(SubSeq(body, 1, k))), dialect)]

\* the arguments of the call under way
TemplatePlaceholders == Placeholders(input.statement.body)
OutputBody == ParseOne(call.sql, NoneDialect).body
Returns(op) == call.op = op /\ call.error = "none"

----------------------------------------------------------------------------
(* Properties of parameter reshaping.                                      *)

\* C1: whenever transpile returns for parameters that bind every placeholder
\* of the template, the output SQL has as many placeholders as there are
\* output parameters, and the i-th output parameter is the value of the i-th
\* placeholder, left to right.
C1_ParametersPairWithPlaceholders ==
    (/\ Returns("transpile")
     /\ Bindable(input.parameters, TemplatePlaceholders))
    => /\ Len(Placeholders(OutputBody)) = Len(call.parameters.values)
       /\ call.parameters.values = BoundValues(input.parameters, TemplatePlaceholders)

\* C2: for PostgreSQL, a template without string literals in which a name
\* occurs more than once gets $1..$n, one number per occurrence, and a tuple
\* with one value per occurrence (:a, :b, :a with {a:1, b:2} gives
\* $1, $2, $3 and (1, 2, 1)).
C2_RepeatedNameHasValuePerOccurrence ==
    (/\ call.op = "transpile"
     /\ input.output_dialect = POSTGRESQL
     /\ input.parameters.kind = "dict"
     /\ \A k \in 1..Len(input.statement.body) : IsPlaceholder(input.statement.body[k])
     /\ HasRepeatedName(TemplatePlaceholders)
     /\ Bindable(input.parameters, TemplatePlaceholders))
    => /\ call.error = "none"
       /\ Texts(OutputBody) = ConventionTexts(input.statement.body, POSTGRESQL)
       /\ call.parameters = TupleOf(BoundValues(input.parameters, TemplatePlaceholders))

\* C3: transpile_parameters on a named map, in any key order, returns the
\* values in the order the placeholders occur: for SQLite a map keyed in
\* that order, for the other dialects a tuple in that order.
C3_NamedMapInOccurrenceOrder ==
    (/\ call.op = "transpile_parameters"
     /\ input.parameters.kind = "dict"
     /\ Bindable(input.parameters, TemplatePlaceholders))
    => /\ call.error = "none"
       /\ IF input.output_dialect = SQLITE
          THEN /\ call.parameters.kind = "dict"
               /\ call.parameters.keys = FirstOccurrences(TemplatePlaceholders, <<>>)
               /\ \A i \in 1..Len(call.parameters.keys) :
                      call.parameters.values[i] =
                          input.parameters.values[KeyIndex(input.parameters,
                                                           call.parameters.keys[i])]
          ELSE call.parameters =
                   TupleOf(BoundValues(input.parameters, TemplatePlaceholders))

\* C4: _sort_parameters on a positional sequence: when the placeholders are
\* $i forms with every index in 1..len(parameters), the k-th output value is
\* the input value at the index of the k-th placeholder; when the template
\* has no $i placeholder the sequence is returned in its order.
C4_PositionalReindexedByDollarIndex ==
    (/\ call.op = "_sort_parameters"
     /\ input.parameters.kind = "seq")
    => /\ (/\ Len(TemplatePlaceholders) > 0
           /\ \A k \in 1..Len(TemplatePlaceholders) :
                  /\ ~IsQuestionMark(TemplatePlaceholders[k])
                  /\ PlaceholderIndex(TemplatePlaceholders[k])
                         \in 1..Len(input.parameters.values))
          => /\ call.error = "none"
             /\ call.parameters =
                    TupleOf(BoundValues(input.parameters, TemplatePlaceholders))
       /\ (\A k \in 1..Len(TemplatePlaceholders) : IsQuestionMark(TemplatePlaceholders[k]))
          => /\ call.error = "none"
             /\ call.parameters = TupleOf(input.parameters.values)

----------------------------------------------------------------------------
(* Properties of the placeholder rewrite.                                  *)

\* C5: the placeholder rewrite returns the emitted SQL with the i-th
\* placeholder, counted left to right, written in the convention of the
\* output dialect (:name or :parameter_i for SQLite, ? for SQL Server and
\* MySQL, $i for PostgreSQL): every placeholder is replaced once, none is
\* skipped.
C5_EveryPlaceholderRewrittenOnce ==
    call.op = "_update_placeholders"
    => /\ call.error = "none"
       /\ Len(OutputBody) = Len(input.statement.body)
       /\ \A k \in 1..Len(input.statement.body) :
              IsPlaceholder(input.statement.body[k])
              => OutputBody[k].text =
                     ConventionTexts(input.statement.body, input.output_dialect)[k]

\* C6: the placeholder rewrite leaves the text of every string literal of
\* the emitted SQL as it stands, also when the literal holds the text of a
\* placeholder that occurs later in the statement.
C6_StringLiteralsUntouched ==
    call.op = "_update_placeholders"
    => /\ call.error = "none"
       /\ Len(OutputBody) = Len(input.statement.body)
       /\ \A k \in 1..Len(input.statement.body) :
              IsLiteral(input.statement.body[k])
              => OutputBody[k].text = input.statement.body[k].text

\* a placeholder of the template names a key the map does not hold
HasUnboundName ==
    /\ input.parameters.kind = "dict"
    /\ \E i \in 1..Len(TemplatePlaceholders) :
           KeyIndex(input.parameters, PlaceholderName(TemplatePlaceholders[i])) = 0

\* C7: when a named placeholder of the template has no entry in the named
\* map, _sort_parameters, transpile_parameters and transpile fail with an
\* error and return no parameter collection.
C7_UnboundNameFails ==
    (/\ call.op \in {"_sort_parameters", "transpile_parameters", "transpile"}
     /\ HasUnboundName)
    => /\ call.error = "KeyError"
       /\ call.parameters = NoneParameters

\* C7 happens: transpile_parameters has raised on a map that lacks a name
C7_Witness ==
    /\ call.op = "transpile_parameters"
    /\ HasUnboundName
    /\ Len(input.parameters.keys) > 0
    /\ call.error = "KeyError"

----------------------------------------------------------------------------
(* Properties of the RETURNING / OUTPUT rewrite.                           *)

RowStatement == {"Insert", "Update", "Delete"}
HasReturning == Len(input.statement.returning) > 0

\* the virtual table of a statement kind
VirtualTable(kind) == IF kind = "Delete" THEN S_DELETED ELSE S_INSERTED

\* the statement without its returning clause, as MySQL writes it
WithoutReturning ==
    Emit(Statement(input.statement.kind,
                   [k \in 1..Len(input.statement.body) |->
                       Token("positional",
                             ConventionTexts(input.statement.body, MYSQL)[k])],
                   <<>>),
         MYSQL)

\* C8: for MySQL the returning clause is removed from the tree, and the SQL
\* emitted for an INSERT, UPDATE or DELETE is the statement without the
\* clause: it holds no RETURNING and no OUTPUT, and the rest is kept.
C8_MySqlDropsReturning ==
    (/\ input.output_dialect = MYSQL
     /\ input.statement.kind \in RowStatement
     /\ HasReturning)
    => /\ call.op = "_update_returning"
          => /\ call.error = "none"
             /\ call.tree = [input.statement EXCEPT !.returning = <<>>]
       /\ call.op \in {"transpile_sql", "transpile"}
          => /\ call.error = "none"
             /\ FirstWord(call.sql, 1, S_RETURNING) = 0
             /\ FirstWord(call.sql, 1, S_OUTPUT) = 0
             /\ call.sql = WithoutReturning

\* C8 happens: a DELETE with a returning clause was transpiled for MySQL
C8_Witness ==
    /\ input.output_dialect = MYSQL
    /\ input.statement.kind = "Delete"
    /\ Len(input.statement.returning) = MaxColumns
    /\ Returns("transpile_sql")
    /\ call.sql = WithoutReturning

\* what C9 says of the columns of a row statement: SQL Server qualifies each
\* with the virtual table; SQLite and PostgreSQL strip a qualifier that is
\* the virtual table name, in any letter case, and keep an unqualified column
ColumnsRewritten ==
    (/\ call.op = "_update_returning"
     /\ input.statement.kind \in RowStatement
     /\ HasReturning
     /\ input.output_dialect # MYSQL)
    => /\ call.error = "none"
       /\ call.tree.kind = input.statement.kind
       /\ call.tree.body = input.statement.body
       /\ Len(call.tree.returning) = Len(input.statement.returning)
       /\ \A i \in 1..Len(input.statement.returning) :
              /\ call.tree.returning[i].name = input.statement.returning[i].name
              /\ input.output_dialect = SQLSERVER
                 => call.tree.returning[i].table =
                        VirtualTable(input.statement.kind)
              /\ (/\ input.output_dialect \in {SQLITE, POSTGRESQL}
                  /\ StrUpper(input.statement.returning[i].table)
                         = VirtualTable(input.statement.kind))
                 => call.tree.returning[i].table = <<>>
              /\ (/\ input.output_dialect \in {SQLITE, POSTGRESQL}
                  /\ input.statement.returning[i].table = <<>>)
                 => call.tree.returning[i].table = <<>>

\* C9 as written: the columns are rewritten, and a returning clause on any
\* other statement kind is rejected with an assertion failure, whatever the
\* output dialect.
C9_AnyOtherKindRejected ==
    /\ ColumnsRewritten
    /\ (/\ call.op = "_update_returning"
        /\ input.statement.kind \notin RowStatement
        /\ HasReturning)
       => call.error = "AssertionError"

\* C9: the columns of the returning clause of an INSERT, UPDATE or DELETE
\* are rewritten for SQL Server, SQLite and PostgreSQL, and a returning
\* clause on any other statement kind is rejected with an assertion failure
\* unless the output dialect is MySQL, for which the clause is removed and
\* nothing is raised.
C9_OtherKindRejectedUnlessMySql ==
    /\ ColumnsRewritten
    /\ (/\ call.op = "_update_returning"
        /\ input.statement.kind \notin RowStatement
        /\ HasReturning)
       => IF input.output_dialect = MYSQL
          THEN /\ call.error = "none"
               /\ call.tree = [input.statement EXCEPT !.returning = <<>>]
          ELSE call.error = "AssertionError"

\* C9 happens: the rewrite for SQLite has stripped a qualifier written in
\* lower case from a column of an INSERT and kept an unqualified column
C9_Witness ==
    /\ Returns("_update_returning")
    /\ input.output_dialect = SQLITE
    /\ input.statement.kind = "Insert"
    /\ Len(input.statement.returning) = 2
    /\ input.statement.returning[1].table = S_inserted
    /\ input.statement.returning[2].table = <<>>
    /\ call.tree.returning[1].table = <<>>

----------------------------------------------------------------------------
(* Properties of the parse cache.                                          *)

\* the key of the call under way: the SQL text with the value of the input
\* dialect, the member ESqlDialect.X and the string X.value giving one key
KeyOfCall ==
    <<Sql, IF input.input_dialect.form = "none" THEN NoneDialect
           ELSE StrDialect(input.input_dialect.value)>>

\* C10: every step keeps each cache entry with the object it holds; a step
\* of _parse leaves the returned object in the cache under the key
\* (sql, input dialect value), and when the key was cached before the step
\* it returns that cached object without parsing again.
C10_CacheKeepsParsedTrees ==
    [][/\ \A k \in DOMAIN cache : k \in DOMAIN cache' /\ cache'[k] = cache[k]
       /\ call'.op = "_parse"
          => /\ KeyOfCall \in DOMAIN cache'
             /\ cache'[KeyOfCall] = call'.object
             /\ call'.object.tree = input.statement
             /\ KeyOfCall \in DOMAIN cache
                => /\ call'.object = cache[KeyOfCall]
                   /\ ~call'.parsed]_vars

\* C10 happens: _parse, called with the dialect as an enum member, has
\* returned without parsing the object cached under this key, while the
\* cache holds another key of the same text
C10_Witness ==
    /\ call.op = "_parse"
    /\ ~call.parsed
    /\ input.input_dialect.form = "enum"
    /\ KeyOfCall \in DOMAIN cache
    /\ call.object = cache[KeyOfCall]
    /\ <<Sql, NoneDialect>> \in DOMAIN cache

----------------------------------------------------------------------------
(* Columns and their foreign keys.                                         *)

\* the step is a deep copy of a column that returned the copy
CopiedColumn == last'.op = "deepcopy" /\ Len(columns') = Len(columns) + 1

\* b was created with reference a and a knows it
IsForeignKeyOf(cs, b, a) == cs[b].reference = a /\ Contains(cs[a]._foreign_keys, b)

\* C11: when a column A.id that B.a_id references is deep-copied into A'.id,
\* afterwards B.a_id.reference is A'.id, the foreign keys of A'.id contain
\* B.a_id and the foreign keys of the original A.id no longer contain it.
C11_CopyTakesOverForeignKeys ==
    [][CopiedColumn =>
          \A b \in 1..Len(columns) :
              IsForeignKeyOf(columns, b, last'.self) =>
                  /\ columns'[b].reference = last'.object
                  /\ Contains(columns'[last'.object]._foreign_keys, b)
                  /\ ~Contains(columns'[last'.self]._foreign_keys, b)]_vars

\* C12: after any constructions and deep copies of columns, every column
\* that has a reference is among the foreign keys of the column it references.
C12_ReferenceKnowsItsForeignKeys ==
    \A c \in 1..Len(columns) :
        columns[c].reference # None =>
            Contains(columns[columns[c].reference]._foreign_keys, c)

----------------------------------------------------------------------------
(* Databases, their tables and their data types.                           *)

\* the databases whose construction returned
Constructed == {d \in 1..Len(databases) : databases[d].constructed}
TablesOf(d) == {containers[databases[d].tables][i] :
                   i \in 1..Len(containers[databases[d].tables])}
ColumnsOf(t) == {tables[t].columns[i] : i \in 1..Len(tables[t].columns)}
DataTypeOf(c) == data_types[columns[c].data_type]

\* C13: for every constructed database d, also after further databases are
\* constructed over the same container, every table of d.tables has d as its
\* database and every column of the table has that table as its table.
C13_TablesPointAtTheirDatabase ==
    \A d \in Constructed : \A t \in TablesOf(d) :
        /\ tables[t].database = d
        /\ \A c \in ColumnsOf(t) : columns[c].table = t

\* C14: for every constructed database d, the data type of every column of
\* d.tables is bound to d; two columns of d whose data types have no
\* parameter and the same name share one instance; and the instances of the
\* catalogue are bound to no database.
C14_DataTypesPointAtTheirDatabase ==
    /\ \A d \in Constructed : \A t1 \in TablesOf(d), t2 \in TablesOf(d) :
          \A c1 \in ColumnsOf(t1), c2 \in ColumnsOf(t2) :
              /\ DataTypeOf(c1).database = d
              /\ (/\ ~IsParameterised(DataTypeOf(c1))
                  /\ ~IsParameterised(DataTypeOf(c2))
                  /\ DataTypeOf(c1).name = DataTypeOf(c2).name)
                 => columns[c1].data_type = columns[c2].data_type
    /\ \A i \in 1..Len(SqlDataTypes) : data_types[i].database = None

----------------------------------------------------------------------------
(* Conditions.                                                             *)

\* the number of values the operator of this name takes
RequiredValueCount(name) ==
    IF name \in {"IS_NULL", "IS_NOT_NULL"} THEN 0
    ELSE IF name \in {"IS_BETWEEN", "IS_NOT_BETWEEN"} THEN 2
    ELSE 1

\* the constructor of a comparison was the last call: it took the operator
\* built.operator and built.values values
Compared == built.op = "SqlCondition"

\* C15: constructing a comparison succeeds when the number of values is the
\* one the operator takes (0 for the NULL checks, 2 for the BETWEEN variants,
\* 1 for =, !=, <, <=, >, >=, LIKE and NOT LIKE) and otherwise fails and
\* yields no condition.
C15_ValueCountMatchesOperator ==
    (Compared /\ built.operator \notin {"IS_IN", "IS_NOT_IN"}) =>
        IF built.values = RequiredValueCount(built.operator)
        THEN /\ built.error = "none"
             /\ condition.kind = "comparison"
             /\ Len(condition.right) = built.values
        ELSE /\ built.error = "AssertionError"
             /\ condition.kind = "none"

\* C15 happens: = was given two values and the constructor raised
C15_Witness ==
    /\ Compared
    /\ built.operator = "IS_EQUAL"
    /\ built.values = 2
    /\ built.error = "AssertionError"
    /\ condition.kind = "none"

\* C16: no comparison with operator IN or NOT IN and no value exists, so
\* none is ever rendered.
C16_EmptyInNotConstructible ==
    /\ ~(/\ condition.kind = "comparison"
         /\ condition.operator \in {ESqlComparisonOperator("IS_IN"),
                                    ESqlComparisonOperator("IS_NOT_IN")}
         /\ condition.right = <<>>)
    /\ (Compared /\ built.operator \in {"IS_IN", "IS_NOT_IN"} /\ built.values = 0)
           => built.error # "none"

\* the literal values and the comparisons of a condition tree
RECURSIVE LiteralCount(_)
LiteralCount(c) ==
    IF c.kind = "compound" THEN LiteralCount(c.left) + LiteralCount(c.right)
    ELSE Cardinality({i \in 1..Len(c.right) : c.right[i].kind = "literal"})

RECURSIVE Comparisons(_)
Comparisons(c) ==
    IF c.kind = "compound" THEN Comparisons(c.left) \cup Comparisons(c.right)
    ELSE {c}

Keys(d) == {d.keys[i] : i \in 1..Len(d.keys)}

\* each literal of the comparison is bound, in the map, under the name that
\* its placeholder shows in the rendered SQL
BindsLiterals(c, parameters) ==
    \A i \in 1..Len(c.right) :
        c.right[i].kind = "literal" =>
            /\ KeyIndex(parameters, Tail(c._values_to_sql[i])) # 0
            /\ parameters.values[KeyIndex(parameters, Tail(c._values_to_sql[i]))]
                   = c.right[i].value

\* C17: the parameter map of a condition tree has exactly one entry per
\* literal value of the tree, each literal bound under the name rendered at
\* its position, and the map of a compound is the union of its sides' maps.
C17_OneParameterPerLiteral ==
    condition.kind # "none" =>
        /\ Len(condition.parameters.keys) = LiteralCount(condition)
        /\ \A c \in Comparisons(condition) : BindsLiterals(c, condition.parameters)
        /\ condition.kind = "compound" =>
               Keys(condition.parameters) =
                   Keys(condition.left.parameters) \cup Keys(condition.right.parameters)

\* the operators that take their values as the operator of this name does
SameValues(name) ==
    {other \in OperatorNames :
        /\ RequiredValueCount(other) = RequiredValueCount(name)
        /\ (other \in {"IS_IN", "IS_NOT_IN"}) = (name \in {"IS_IN", "IS_NOT_IN"})}

\* C18: a comparison renders the token of its own operator, so not the SQL
\* that another operator renders on the same operands; one built with
\* IS_GREATER_THAN_OR_EQUAL renders ">=" after its left side and never the
\* SQL of IS_LESS_THAN_OR_EQUAL.
C18_GreaterOrEqualRendersItsToken ==
    (Compared /\ built.error = "none") =>
        /\ \A other \in SameValues(built.operator) \ {built.operator} :
               to_sql(condition) #
                   to_sql([condition EXCEPT !.operator = ESqlComparisonOperator(other)])
        /\ built.operator = "IS_GREATER_THAN_OR_EQUAL" =>
               StartsWith(to_sql(condition),
                          condition.left.fully_qualified_name \o <<" ", ">", "=", " ">>)

----------------------------------------------------------------------------
(* Statements on records.                                                  *)

\* C19: insert_records succeeds when no executed statement returns a row id
\* and then returns an empty list, not None.
C19_NoIdsGiveEmptyList ==
    (/\ built.op = "insert_records"
     /\ Len(built.cursors) > 0
     /\ \A i \in 1..Len(built.cursors) :
            ~built.cursors[i].description \/ built.cursors[i].row = None)
    => /\ built.error = "none"
       /\ ~built.none
       /\ built.ids = <<>>

\* the name generated for the i-th column of the record of the last UPDATE
GeneratedName(i) ==
    generate_parameter_name(built.record[i].column, built.uuids[i])
ValueOf(d, key) == d.values[KeyIndex(d, key)]

\* C20: the parameters of an UPDATE statement are the generated parameters
\* of the record and the parameters of the where condition, with the value
\* of the where condition under a name both have; the i-th pair of the SET
\* list is the i-th column of the record with the name generated for it;
\* and no name of the where condition is in the SET list.
C20_UpdateParametersAndSetList ==
    built.op = "SqlUpdateStatement" =>
        /\ Keys(built.template_parameters) =
               {GeneratedName(i) : i \in 1..Len(built.record)}
                   \cup Keys(condition.parameters)
        /\ \A key \in Keys(condition.parameters) :
               ValueOf(built.template_parameters, key)
                   = ValueOf(condition.parameters, key)
        /\ \A i \in 1..Len(built.record) :
               GeneratedName(i) \notin Keys(condition.parameters) =>
                   ValueOf(built.template_parameters, GeneratedName(i))
                       = built.record[i].value
        /\ Len(built.columns_and_parameters) = Len(built.record)
        /\ \A i \in 1..Len(built.record) :
               /\ built.columns_and_parameters[i]
                      = <<built.record[i].column, GeneratedName(i)>>
               /\ built.columns_and_parameters[i][2]
                      \notin Keys(condition.parameters)

----------------------------------------------------------------------------
(* Claims on records: JSON and aliases.                                    *)

\* C21: a record whose values are scalars, bytes, dates, datetimes or times
\* in columns of the matching data type comes back equal from
\* from_json(to_json(record), database).
C21_JsonRoundTrip ==
    asked.op = "from_json" =>
        /\ asked.error = "none"
        /\ RecordEq(BoundSchemas[asked.schema], asked.decoded, asked.record)

\* C22: resolving the alias of a column of the database or of an attached
\* database gives that very column; resolving the alias of an aggregate
\* function over such a column, or of COUNT(*), gives an equal function.
C22_AliasRoundTrip ==
    asked.op = "_get_item_by_alias" =>
        /\ asked.error = "none"
        /\ asked.item.kind = "column" => asked.found = asked.item
        /\ asked.item.kind = "function" =>
               /\ asked.found.kind = "function"
               /\ ItemEq(BoundSchemas[asked.schema], asked.found, asked.item)

----------------------------------------------------------------------------
(* Claims on declared schemas.                                             *)

\* the container of database d lists, with every table, the tables that
\* the table was declared to reference
ListsReferencedTables(d) ==
    \A t \in TablesOf(d) :
        tables[tables[t].copy_of].parents \subseteq {tables[u].copy_of : u \in TablesOf(d)}

\* C25: in the tables of a constructed database whose container lists the
\* referenced tables with the referencing ones, in any order, every column
\* that has a reference references a column of a table of that same
\* database, and is among the foreign keys of that column.
C25_ForeignKeysStayInTheirDatabase ==
    \A d \in {e \in Constructed : ListsReferencedTables(e)} :
      \A t \in TablesOf(d) : \A c \in ColumnsOf(t) :
        columns[c].reference # None =>
            /\ columns[columns[c].reference].table \in TablesOf(d)
            /\ Contains(columns[columns[c].reference]._foreign_keys, c)

\* C26: the deep copy of a column that has a reference raises nothing
\* and leaves the copy among the foreign keys of the referenced column,
\* however often the column was copied before.
C26_CopyOfForeignKeyCompletes ==
    (last.op = "deepcopy" /\ columns[last.self].reference # None) =>
        /\ last.error = "none"
        /\ Contains(columns[columns[last.self].reference]._foreign_keys, last.object)

\* C23: self.join(table, join_type) uses the first foreign key column of
\* the other table that references a column of self; when the other table
\* has none, the first foreign key column of self that references a column
\* of the other table; the join is of the other table, on that column and
\* its reference, of the type asked for; with no foreign key either way
\* the call fails.
ReferencingColumns(bound, from, to) ==
    {c \in 1..Len(BoundTable(bound, from).columns) :
        /\ BoundColumn(bound, <<from[1], from[2], c>>).reference # NoColumn
        /\ TableOfColumn(BoundColumn(bound, <<from[1], from[2], c>>).reference) = to}
FirstOf(S) == CHOOSE n \in S : \A m \in S : n <= m
ExpectedForeignKey(bound, self, table) ==
    IF ReferencingColumns(bound, table, self) # {}
    THEN <<table[1], table[2], FirstOf(ReferencingColumns(bound, table, self))>>
    ELSE IF ReferencingColumns(bound, self, table) # {}
    THEN <<self[1], self[2], FirstOf(ReferencingColumns(bound, self, table))>>
    ELSE NoColumn
C23_JoinPrefersForeignKeyOfOther ==
    asked.op = "join" =>
        LET bound == JoinSchemas[asked.schema]
            expected == ExpectedForeignKey(bound, asked.self, asked.table)
        IN  IF expected = NoColumn
            THEN asked.error = "AssertionError" /\ asked.join = NoJoin
            ELSE /\ asked.error = "none"
                 /\ asked.join.table = asked.table
                 /\ asked.join.columns = <<expected, BoundColumn(bound, expected).reference>>
                 /\ asked.join.type = asked.join_type

\* two tables that reference each other were joined: the foreign key of
\* the other table was used
C23_BothWays ==
    /\ asked.op = "join"
    /\ asked.error = "none"
    /\ ReferencingColumns(JoinSchemas[asked.schema], asked.table, asked.self) # {}
    /\ ReferencingColumns(JoinSchemas[asked.schema], asked.self, asked.table) # {}
    /\ asked.self # asked.table
    /\ TableOfColumn(asked.join.columns[1]) = asked.table

\* C24: preprocessing an order-by list in which every marker stands
\* directly after an item returns the pairs (item, marker or none) in the
\* order of the list, each marker with the item before it; a list that
\* starts with a marker or has two markers in a row is rejected; and the
\* loop ends for every list.
WellFormedOrderBy(order_by_items) ==
    \A i \in 1..Len(order_by_items) :
        IsOrderByType(order_by_items[i]) => i > 1 /\ IsItem(order_by_items[i - 1])
RECURSIVE EntriesOf(_)
EntriesOf(pairs) ==
    IF pairs = <<>> THEN <<>>
    ELSE (IF Head(pairs).order = NoItem THEN <<Head(pairs).item>>
          ELSE <<Head(pairs).item, Head(pairs).order>>) \o EntriesOf(Tail(pairs))
OrderByOver == asked.op = "order_by" /\ asked.loop.at \in {"returned", "raised"}
OrderByResult ==
    (asked.op = "order_by" /\ asked.given) =>
        /\ asked.loop.at = "returned" =>
               /\ WellFormedOrderBy(asked.order_by_items)
               /\ asked.error = "none"
               /\ EntriesOf(asked.loop.preprocessed_order_by_items) = asked.order_by_items
               /\ \A i \in 1..Len(asked.loop.preprocessed_order_by_items) :
                      LET pair == asked.loop.preprocessed_order_by_items[i]
                      IN  IsItem(pair.item) /\ (pair.order = NoItem \/ IsOrderByType(pair.order))
        /\ asked.loop.at = "raised" =>
               /\ ~WellFormedOrderBy(asked.order_by_items)
               /\ asked.error = "AssertionError"
C24_OrderByPairsAndTermination ==
    /\ []OrderByResult
    /\ (asked.op = "order_by" /\ asked.loop.at = "loop") ~> OrderByOver

\* a list of an item with a marker and an item without one was turned
\* into two pairs
C24_MarkedAndUnmarked ==
    /\ asked.op = "order_by"
    /\ asked.loop.at = "returned"
    /\ Len(asked.order_by_items) = 3
    /\ Len(asked.loop.preprocessed_order_by_items) = 2
    /\ asked.loop.preprocessed_order_by_items[1].order = DESCENDING
    /\ asked.loop.preprocessed_order_by_items[2].order = NoItem

\* C27: transpile_sql never changes a cached parse tree: whatever calls
\* were made before, for whatever output dialects, every cached tree is the
\* tree its text parses to, and transpile_sql gives what it gives on an
\* empty cache.
C27_CachedTreesNeverChange ==
    /\ \A k \in DOMAIN cache : cache[k].tree = ParseOne(k[1], k[2])
    /\ call.op = "transpile_sql" =>
           LET fresh == transpile_sql(EmptyCache, Sql, input.input_dialect,
                                      input.output_dialect)
           IN  call.error = fresh.error /\ call.sql = fresh.sql /\ call.tree = fresh.tree

\* transpile_sql took the tree from the cache and emitted a rewritten copy
\* of it
C27_RewroteCopyOfCachedTree ==
    /\ call.op = "transpile_sql"
    /\ call.error = "none"
    /\ ~call.parsed
    /\ call.object = cache[KeyOfCall]
    /\ call.tree # call.object.tree

\* the tables a table references, and the schemas the ordering is about
References(bound, table) ==
    {TableOfColumn(BoundColumn(bound, <<table[1], table[2], c>>).reference) :
        c \in {c \in 1..Len(BoundTable(bound, table).columns) :
                  BoundColumn(bound, <<table[1], table[2], c>>).reference # NoColumn}}
Acyclic(bound) ==
    \A S \in SUBSET TablesOfDatabase(bound, 1) :
        S # {} => \E table \in S : References(bound, table) \cap S = {}
ReferencesStayInside(bound) ==
    \A table \in TablesOfDatabase(bound, 1) :
        References(bound, table) \subseteq TablesOfDatabase(bound, 1)
DropsAll == asked.op = "drop_all_tables"
DroppedAt(table) == {i \in 1..Len(asked.drop.executed) : asked.drop.executed[i] = table}

\* C28: on a database whose foreign keys form no cycle and reference only
\* its own tables, drop_all_tables drops every table exactly once, a table
\* only after every table that references it, and commits after the last
\* drop.
DropOrder ==
    (/\ DropsAll
     /\ Acyclic(DropSchemas[asked.schema])
     /\ ReferencesStayInside(DropSchemas[asked.schema])) =>
        LET bound == DropSchemas[asked.schema]
            all == TablesOfDatabase(bound, 1)
            executed == asked.drop.executed
        IN  /\ \A i \in 1..Len(executed) :
                   \/ executed[i] \in all
                   \/ executed[i] = Committed /\ i = Len(executed)
            /\ \A table \in all : Cardinality(DroppedAt(table)) <= 1
            /\ \A table \in all : \A other \in References(bound, table) :
                   DroppedAt(other) # {} =>
                       \E i \in DroppedAt(table) : \A k \in DroppedAt(other) : i < k
            /\ asked.drop.at = "committed" =>
                   /\ \A table \in all : Cardinality(DroppedAt(table)) = 1
                   /\ executed[Len(executed)] = Committed
C29_OrderingLoopEnds ==
    DropsAll ~> (DropsAll /\ asked.drop.at # "ordering")

\* C30: insert_records with records r1..rn executes one INSERT per record,
\* in input order; the values bound for rk are those a single-record insert
\* of rk binds, each value of rk through the converters of its item and
\* bound to the parameter of that item; the ids are in record order.
ParametersOf(parameters) ==
    {<<parameters[i].item, parameters[i].value>> : i \in 1..Len(parameters)}
IdsInOrder(cursors) ==
    LET with == SelectSeq(cursors, LAMBDA cursor : cursor.description /\ cursor.row # None)
    IN  [i \in 1..Len(with) |-> with[i].row]
C30_BulkInsertBindsAsSingleInserts ==
    asked.op = "insert_records" =>
        LET bound == BulkSchemas[asked.schema]
            insertion == asked.insertion
        IN  /\ Len(insertion.executed) = Len(insertion.records)
            /\ \A k \in 1..Len(insertion.records) :
                   ParametersOf(insertion.executed[k]) =
                       ParametersOf(insert_records_of(bound, <<insertion.records[k]>>,
                                                     <<insertion.cursors[k]>>).executed[1])
            /\ insertion.ids = IdsInOrder(insertion.cursors)

====
